---- MODULE Spec2Model ----
(***************************************************************************)
(* A model of the crill concurrency primitives:                            *)
(*   spin_mutex               (include/crill/spin_mutex.h)                 *)
(*   seqlock_object           (include/crill/seqlock_object.h)             *)
(*   reclaim_object           (include/crill/atomic_unique_ptr.h, 2nd half)*)
(*   reclaim_on_write_object  (include/crill/reclaim_on_write_object.h)    *)
(*   atomic_unique_ptr        (include/crill/atomic_unique_ptr.h, 1st half)*)
(* Every atomic access of the source is one step of the thread making it;  *)
(* the steps of different threads interleave arbitrarily.                  *)
(***************************************************************************)
EXTENDS Integers, Sequences, FiniteSets, TLC

VARIABLES
    \* ---- spin_mutex ----
    flag,        \* std::atomic_flag flag
    m_pc,        \* per thread: where it is in lock()/try_lock()/unlock()
    m_i,         \* per thread: loop counter i of the current backoff stage
    m_ret,       \* per thread: result of the thread's last try_lock()
    m_tries,     \* per thread: history, the number of try_lock() calls it has made,
                 \* modulo 2
    \* ---- progressive_backoff_wait ----
    pb_flag,     \* the std::atomic<bool> flag that the waiting test's predicate reads
    pb_writes,   \* number of writes made to that flag so far
    pb_w,        \* the thread calling progressive_backoff_wait: position, loop counter,
                 \* and whether the call has paused or yielded so far
    \* ---- seqlock_object ----
    seq,         \* std::atomic<size_t> seq
    data,        \* std::atomic<size_t> data[buffer_size]
    sq_w,        \* the writer thread: position and locals of store()
    sq_r,        \* per reader thread: position and locals of try_load()/load()
    sq_stored,   \* history: the values given to the constructor and to store()
    \* ---- the build ----
    assertions,  \* TRUE: assert() is compiled in (NDEBUG not defined); FALSE: NDEBUG
    \* ---- reclaim_object ----
    value,          \* crill::atomic_unique_ptr<T> value: address of the current T
    zombies,        \* std::vector<zombie> zombies: <<epoch_when_retired, value>> entries
    zombies_mtx,    \* std::mutex zombies_mtx: "free" or the thread holding it
    readers,        \* std::vector<reader*> readers
    readers_mtx,    \* std::mutex readers_mtx: "free" or the thread holding it
    current_epoch,  \* std::atomic<uint64_t> current_epoch
    min_epoch,      \* per reader: std::atomic<uint64_t> reader::min_epoch
    heap,           \* address -> the T living (or last living) there
    alive,          \* the addresses holding a T that has not been destroyed
    ro_rd,          \* per reader thread: position, locals of read_ptr
    ro_wr,          \* per writer thread: position, locals of update / write_ptr
    ro_gc,          \* the thread calling reclaim(): position and loop state
    \* ---- reclaim_on_write_object ----
    rw_slots,              \* std::array<T, 2> slots
    rw_current_read_slot,  \* std::atomic<uint8_t> current_read_slot
    rw_readers,            \* std::vector<reader*> readers
    rw_readers_mtx,        \* std::mutex readers_mtx: "free" or "held"
    rw_current_epoch,      \* std::atomic<uint64_t> current_epoch
    rw_min_epoch,          \* per reader: std::atomic<uint64_t> reader::min_epoch
    rw_rd,                 \* per reader thread: position, locals of read_ptr
    rw_wr,                 \* per writer thread: position, locals of update / write_ptr
    rw_updates,            \* number of update / write_lock calls made so far
    \* ---- atomic_unique_ptr ----
    au_ptr,        \* std::atomic<T*> ptr: the stored address
    au_live,       \* the atomic_unique_ptr has not been destroyed
    au_made,       \* number of objects created by make_unique
    au_installed,  \* history: the addresses ever stored in ptr
    au_deleted,    \* per address: how many times the object there was deleted
    au_alive,      \* the allocator: the addresses that hold an object now
    au_t           \* per thread: its unique_ptr desired, its T* expected, the result
                   \* of its last call

mutex_vars   == <<flag, m_pc, m_i, m_ret, m_tries>>
backoff_vars == <<pb_flag, pb_writes, pb_w>>
seqlock_vars == <<seq, data, sq_w, sq_r, sq_stored>>
reclaim_vars == <<value, zombies, zombies_mtx, readers, readers_mtx, current_epoch,
                  min_epoch, heap, alive, ro_rd, ro_wr, ro_gc>>
row_vars     == <<rw_slots, rw_current_read_slot, rw_readers, rw_readers_mtx,
                  rw_current_epoch, rw_min_epoch, rw_rd, rw_wr, rw_updates>>
aup_vars     == <<au_ptr, au_live, au_made, au_installed, au_deleted, au_alive, au_t>>
vars == <<mutex_vars, backoff_vars, seqlock_vars, assertions, reclaim_vars, row_vars, aup_vars>>

\* what the steps of one component leave alone: the build and the other components
not_mutex   == <<backoff_vars, seqlock_vars, assertions, reclaim_vars, row_vars, aup_vars>>
not_seqlock == <<mutex_vars, backoff_vars, assertions, reclaim_vars, row_vars, aup_vars>>
not_reclaim == <<mutex_vars, backoff_vars, seqlock_vars, assertions, row_vars, aup_vars>>
not_row     == <<mutex_vars, backoff_vars, seqlock_vars, assertions, reclaim_vars, aup_vars>>
not_aup     == <<mutex_vars, backoff_vars, seqlock_vars, assertions, reclaim_vars, row_vars>>
not_backoff == <<mutex_vars, seqlock_vars, assertions, reclaim_vars, row_vars, aup_vars>>

(***************************************************************************)
(* spin_mutex                                                              *)
(***************************************************************************)
\* number of threads using the mutex
NumThreads == 3
Threads == 1..NumThreads

\* Repetitions of the three backoff stages (template parameters N0, N1, N2 of
\* lock_impl_intel / stage_reps[]; the source uses 5, 10, 3000).
N0 == 1
N1 == 1
N2 == 2

\* mutant: a test that reports the flag without setting it
test_without_set(f) == [flag |-> f, prev |-> f]

\* std::atomic_flag::test_and_set: sets the flag, returns the previous value
test_and_set(f) == [flag |-> TRUE, prev |-> f]

\* mutant: a test-and-set that reports "was clear" whatever the flag was
try_lock_always(f) == [flag |-> TRUE, ret |-> TRUE]

\* spin_mutex::try_lock: return !flag.test_and_set(acquire)
try_lock(f) == [flag |-> test_and_set(f).flag, ret |-> ~test_and_set(f).prev]

\* spin_mutex::unlock: flag.clear(release)
unlock(f) == FALSE

\* a direct call of try_lock() by a thread that does not hold the lock
TryLock(t) ==
    /\ m_pc[t] = "idle"
    /\ flag' = try_lock(flag).flag
    /\ m_ret' = [m_ret EXCEPT ![t] = try_lock(flag).ret]
    /\ m_pc' = [m_pc EXCEPT ![t] = IF try_lock(flag).ret THEN "held" ELSE "idle"]
    /\ m_tries' = [m_tries EXCEPT ![t] = 1 - @]
    /\ UNCHANGED <<m_i, not_mutex>>

\* a call of try_lock() by the thread that holds the lock (the tests'
\* "mtx.lock(); REQUIRE_FALSE(mtx.try_lock())"): the caller goes on holding it
TryLockHeld(t) ==
    /\ m_pc[t] = "held"
    /\ flag' = try_lock(flag).flag
    /\ m_ret' = [m_ret EXCEPT ![t] = try_lock(flag).ret]
    /\ m_tries' = [m_tries EXCEPT ![t] = 1 - @]
    /\ UNCHANGED <<m_pc, m_i, not_mutex>>

\* mutant: a lock() that begins with the paused retries of stage 2
LockCallSkipsStage1(t) ==
    /\ m_pc[t] = "idle"
    /\ m_pc' = [m_pc EXCEPT ![t] = "stage2"]
    /\ m_i' = [m_i EXCEPT ![t] = 0]
    /\ UNCHANGED <<flag, m_ret, m_tries, not_mutex>>

\* a call of lock(): enters stage 1 with i = 0
LockCall(t) ==
    /\ m_pc[t] = "idle"
    /\ m_pc' = [m_pc EXCEPT ![t] = "stage1"]
    /\ m_i' = [m_i EXCEPT ![t] = 0]
    /\ UNCHANGED <<flag, m_ret, m_tries, not_mutex>>

\* one iteration of a stage loop "for (i = 0; i < n; ++i) { if (try_lock()) return; pause }"
\* or, when i has reached n, the exit of the loop to position `after`
StageStep(t, stage, n, after) ==
    /\ m_pc[t] = stage
    /\ IF m_i[t] < n
       THEN /\ flag' = try_lock(flag).flag
            /\ m_ret' = [m_ret EXCEPT ![t] = try_lock(flag).ret]
            /\ m_tries' = [m_tries EXCEPT ![t] = 1 - @]
            /\ IF try_lock(flag).ret
               THEN /\ m_pc' = [m_pc EXCEPT ![t] = "held"]
                    /\ m_i' = [m_i EXCEPT ![t] = 0]
               ELSE /\ m_i' = [m_i EXCEPT ![t] = m_i[t] + 1]
                    /\ UNCHANGED m_pc
       ELSE /\ m_pc' = [m_pc EXCEPT ![t] = after]
            /\ m_i' = [m_i EXCEPT ![t] = 0]
            /\ UNCHANGED <<flag, m_ret, m_tries>>
    /\ UNCHANGED not_mutex

LockStage1(t) == StageStep(t, "stage1", N0, "stage2")
LockStage2(t) == StageStep(t, "stage2", N1, "stage3")
LockStage3(t) == StageStep(t, "stage3", N2, "yield")

\* mutant: a lock() that gives up waiting after its yield and returns
LockYieldReturns(t) ==
    /\ m_pc[t] = "yield"
    /\ m_pc' = [m_pc EXCEPT ![t] = "held"]
    /\ UNCHANGED <<flag, m_i, m_ret, m_tries, not_mutex>>

\* std::this_thread::yield() at the end of the stage 3 for-loop, then while(true) again
LockYield(t) ==
    /\ m_pc[t] = "yield"
    /\ m_pc' = [m_pc EXCEPT ![t] = "stage3"]
    /\ UNCHANGED <<flag, m_i, m_ret, m_tries, not_mutex>>

\* unlock() by the thread that holds the lock
Unlock(t) ==
    /\ m_pc[t] = "held"
    /\ flag' = unlock(flag)
    /\ m_pc' = [m_pc EXCEPT ![t] = "idle"]
    /\ UNCHANGED <<m_i, m_ret, m_tries, not_mutex>>

InitMutex ==
    /\ flag = FALSE
    /\ m_pc = [t \in Threads |-> "idle"]
    /\ m_i = [t \in Threads |-> 0]
    /\ m_ret = [t \in Threads |-> FALSE]
    /\ m_tries = [t \in Threads |-> 0]

(***************************************************************************)
(* progressive_backoff_wait(pred)                                          *)
(* crill/progressive_backoff_wait.h is not among the sources; the wait is  *)
(* modelled from the specification (4.1 Backoff Wait): "blocks until       *)
(* predicate() is true", in three stages, (a) a burst of immediate         *)
(* rechecks, (b) a burst of rechecks separated by a short pause, (c) an    *)
(* unbounded loop of rechecks separated by a pause, alternated with a      *)
(* scheduler yield.  The caller and its predicate are those of             *)
(* tests/utility_test.cpp: the predicate reads a flag another thread       *)
(* writes.  The bursts have the lengths N0, N1, N2 of spin_mutex::lock.    *)
(***************************************************************************)
\* number of writes the other thread makes to the flag
MaxFlagWrites == 2

pb_w_idle == [pc |-> "idle", i |-> 0, paused |-> FALSE]

\* the predicate of the test: "flag == true"
pred(f) == f = TRUE

\* the other thread writes the flag ("flag = true" in the test), which it does
\* before the wait has returned: the test case ends when it has
PbWriteFlag(v) ==
    /\ pb_writes < MaxFlagWrites
    /\ pb_w.pc \notin {"done", "ended"}
    /\ pb_flag' = v
    /\ pb_writes' = pb_writes + 1
    /\ UNCHANGED <<pb_w, not_backoff>>

\* the call of progressive_backoff_wait(pred): enters stage (a) with no recheck made
PbCall ==
    /\ pb_w.pc = "idle"
    /\ pb_w' = [pc |-> "stage1", i |-> 0, paused |-> FALSE]
    /\ UNCHANGED <<pb_flag, pb_writes, not_backoff>>

\* one recheck of a burst: the wait returns if the predicate is true, and otherwise
\* goes on, in stages (b) and (c) after the pause that separates the rechecks; or,
\* when the burst is over, the move to position `after`
PbStageStep(stage, n, pause, after) ==
    /\ pb_w.pc = stage
    /\ IF pb_w.i < n
       THEN IF pred(pb_flag)
            THEN pb_w' = [pb_w EXCEPT !.pc = "done", !.i = 0]
            ELSE pb_w' = [pb_w EXCEPT !.i = @ + 1, !.paused = @ \/ pause]
       ELSE pb_w' = [pb_w EXCEPT !.pc = after, !.i = 0]
    /\ UNCHANGED <<pb_flag, pb_writes, not_backoff>>

PbStage1 == PbStageStep("stage1", N0, FALSE, "stage2")
PbStage2 == PbStageStep("stage2", N1, TRUE, "stage3")
PbStage3 == PbStageStep("stage3", N2, TRUE, "yield")

\* stage (c): the scheduler yield, then the next burst
PbYield ==
    /\ pb_w.pc = "yield"
    /\ pb_w' = [pc |-> "stage3", i |-> 0, paused |-> TRUE]
    /\ UNCHANGED <<pb_flag, pb_writes, not_backoff>>

\* the predicate is true from the start ("Waiting on a true predicate immediately
\* returns") or false ("std::atomic<bool> flag = false")
\* the end of the test case once the wait has returned ("waiter_thread.join();
\* REQUIRE(waiter_thread_done)" and the return): the flag and the waiting thread
\* are gone; whether the call had paused is kept as history
PbTestEnd ==
    /\ pb_w.pc = "done"
    /\ pb_w' = [pb_w EXCEPT !.pc = "ended"]
    /\ pb_flag' = FALSE
    /\ pb_writes' = 0
    /\ UNCHANGED not_backoff

InitBackoff ==
    /\ pb_flag \in BOOLEAN
    /\ pb_writes = 0
    /\ pb_w = pb_w_idle

\* no progressive_backoff_wait test runs
RestBackoff ==
    /\ pb_flag = FALSE
    /\ pb_writes = 0
    /\ pb_w = pb_w_idle

(***************************************************************************)
(* seqlock_object<T>                                                       *)
(* T is a trivially copyable type of SizeofT bytes; a word (std::size_t)   *)
(* has WordBytes bytes.  A T is the sequence of its bytes, a word is the   *)
(* sequence of its bytes.                                                  *)
(***************************************************************************)
SizeofT == 3
WordBytes == 2
\* number of store() calls the writer makes
MaxStores == 2
\* number of reader threads
NumSeqReaders == 1
SeqReaders == 1..NumSeqReaders

\* static constexpr buffer_size = (sizeof(T) + sizeof(size_t) - 1) / sizeof(size_t)
buffer_size == (SizeofT + WordBytes - 1) \div WordBytes

\* the T all of whose bytes are v
Value(v) == [k \in 1..SizeofT |-> v]
\* the values the writer stores and the constructor is given
Values == {Value(1), Value(2)}

\* mutant: a store that copies only the bytes of t that fill whole words
to_buffer_whole_words(t) ==
    [i \in 1..buffer_size |->
        [k \in 1..WordBytes |->
            IF i * WordBytes <= SizeofT
            THEN t[(i - 1) * WordBytes + k] ELSE 0]]

\* store(): "if (sizeof(T) % sizeof(size_t) != 0) buffer[buffer_size-1] = 0;
\*           memcpy(&buffer, &t, sizeof(T))": the words holding t's bytes, the
\* unused tail bytes of the last word being zero
to_buffer(t) ==
    [i \in 1..buffer_size |->
        [k \in 1..WordBytes |->
            IF (i - 1) * WordBytes + k <= SizeofT
            THEN t[(i - 1) * WordBytes + k] ELSE 0]]

\* try_load(): memcpy(&t, buffer, sizeof(T)): the first sizeof(T) bytes of the words
from_buffer(buf) ==
    [k \in 1..SizeofT |-> buf[((k - 1) \div WordBytes) + 1][((k - 1) % WordBytes) + 1]]

\* store_all_zeroes(): every word 0
all_zeroes == [i \in 1..buffer_size |-> [k \in 1..WordBytes |-> 0]]

\* mutant: a try_load that does not compare the two sequence reads
seq_check_none(seq1, seq2) == TRUE

\* try_load(): "if (seq1 != seq2) return false"
seq_check(seq1, seq2) == seq1 = seq2

\* mutant: a try_load that does not look at the parity of its first sequence read
seq_is_odd_never(seq1) == FALSE

\* try_load(): "if (seq1 % 2 != 0) return false"
seq_is_odd(seq1) == seq1 % 2 # 0

\* store(T t), first part: the local buffer is filled and old_seq = seq.load(relaxed)
StoreBegin(t) ==
    /\ sq_w.pc = "idle"
    /\ sq_w.stores < MaxStores
    /\ sq_w' = [sq_w EXCEPT !.pc = "seq1", !.buffer = to_buffer(t), !.old_seq = seq,
                            !.stores = sq_w.stores + 1]
    /\ sq_stored' = sq_stored \cup {t}
    /\ UNCHANGED <<seq, data, sq_r, not_seqlock>>

\* mutant: a store that writes the data words without making the counter odd first
StoreSeq1NoWrite ==
    /\ sq_w.pc = "seq1"
    /\ sq_w' = [sq_w EXCEPT !.pc = "data", !.i = 0]
    /\ UNCHANGED <<seq, data, sq_r, sq_stored, not_seqlock>>

\* seq.store(old_seq + 1, relaxed); release fence
StoreSeq1 ==
    /\ sq_w.pc = "seq1"
    /\ seq' = sq_w.old_seq + 1
    /\ sq_w' = [sq_w EXCEPT !.pc = "data", !.i = 0]
    /\ UNCHANGED <<data, sq_r, sq_stored, not_seqlock>>

\* one iteration of "for (i < buffer_size) data[i].store(buffer[i], relaxed)", or the loop's exit
StoreData ==
    /\ sq_w.pc = "data"
    /\ IF sq_w.i < buffer_size
       THEN /\ data' = [data EXCEPT ![sq_w.i + 1] = sq_w.buffer[sq_w.i + 1]]
            /\ sq_w' = [sq_w EXCEPT !.i = sq_w.i + 1]
       ELSE /\ sq_w' = [sq_w EXCEPT !.pc = "seq2"]
            /\ UNCHANGED data
    /\ UNCHANGED <<seq, sq_r, sq_stored, not_seqlock>>

\* seq.store(old_seq + 2, release); store() returns
StoreSeq2 ==
    /\ sq_w.pc = "seq2"
    /\ seq' = sq_w.old_seq + 2
    /\ sq_w' = [sq_w EXCEPT !.pc = "idle", !.i = 0]
    /\ UNCHANGED <<data, sq_r, sq_stored, not_seqlock>>

\* a reader calls try_load(t) (kind "try_load") or load() (kind "load")
LoadCall(r, kind) ==
    /\ sq_r[r].pc = "idle"
    /\ sq_r' = [sq_r EXCEPT ![r] = [@ EXCEPT !.pc = "seq1", !.kind = kind, !.ret = "none",
                                              !.buffer = << >>]]
    /\ UNCHANGED <<seq, data, sq_w, sq_stored, not_seqlock>>

\* seq1 = seq.load(acquire); if (seq1 % 2 != 0) return false
LoadSeq1(r) ==
    /\ sq_r[r].pc = "seq1"
    /\ IF seq_is_odd(seq)
       THEN sq_r' = [sq_r EXCEPT ![r] =
                [@ EXCEPT !.seq1 = seq,
                          !.pc = IF sq_r[r].kind = "load" THEN "seq1" ELSE "idle",
                          !.ret = IF sq_r[r].kind = "load" THEN "none" ELSE "false"]]
       ELSE sq_r' = [sq_r EXCEPT ![r] = [@ EXCEPT !.seq1 = seq, !.pc = "data", !.buffer = << >>]]
    /\ UNCHANGED <<seq, data, sq_w, sq_stored, not_seqlock>>

\* one iteration of "for (i < buffer_size) buffer[i] = data[i].load(relaxed)", or the
\* loop's exit (the words copied so far are buffer[0 .. i-1])
LoadData(r) ==
    /\ sq_r[r].pc = "data"
    /\ IF Len(sq_r[r].buffer) < buffer_size
       THEN sq_r' = [sq_r EXCEPT ![r] =
                [@ EXCEPT !.buffer = Append(@, data[Len(sq_r[r].buffer) + 1])]]
       ELSE sq_r' = [sq_r EXCEPT ![r] = [@ EXCEPT !.pc = "seq2"]]
    /\ UNCHANGED <<seq, data, sq_w, sq_stored, not_seqlock>>

\* mutant: a load() that returns what its first try_load copied, whatever the
\* second sequence read says
LoadSeq2ReturnsAnyway(r) ==
    /\ sq_r[r].pc = "seq2"
    /\ IF seq_check(sq_r[r].seq1, seq) \/ sq_r[r].kind = "load"
       THEN sq_r' = [sq_r EXCEPT ![r] =
                [@ EXCEPT !.pc = "idle", !.ret = "true",
                          !.t = from_buffer(sq_r[r].buffer), !.buffer = << >>]]
       ELSE sq_r' = [sq_r EXCEPT ![r] =
                [@ EXCEPT !.buffer = << >>, !.pc = "idle", !.ret = "false"]]
    /\ UNCHANGED <<seq, data, sq_w, sq_stored, not_seqlock>>

\* acquire fence; seq2 = seq.load(relaxed); if (seq1 != seq2) return false;
\* memcpy(&t, buffer, sizeof(T)); return true.
\* load() calls try_load again while it returns false.
LoadSeq2(r) ==
    /\ sq_r[r].pc = "seq2"
    /\ IF seq_check(sq_r[r].seq1, seq)
       THEN sq_r' = [sq_r EXCEPT ![r] =
                [@ EXCEPT !.pc = "idle", !.ret = "true",
                          !.t = from_buffer(sq_r[r].buffer), !.buffer = << >>]]
       ELSE sq_r' = [sq_r EXCEPT ![r] =
                [@ EXCEPT !.buffer = << >>,
                          !.pc = IF sq_r[r].kind = "load" THEN "seq1" ELSE "idle",
                          !.ret = IF sq_r[r].kind = "load" THEN "none" ELSE "false"]]
    /\ UNCHANGED <<seq, data, sq_w, sq_stored, not_seqlock>>

\* T{} of the test's "struct coeffs { a = 0; b = false; c = 42; }": a value whose
\* default member initializers are not all zero
default_T == [k \in 1..SizeofT |-> IF k = SizeofT THEN 42 ELSE 0]

\* the T a caller hands to try_load before any load succeeded (test: "coeffs c;",
\* and "T t;" in load()): default-initialized
caller_t == default_T

sq_w_init == [pc |-> "idle", buffer |-> all_zeroes, old_seq |-> 0, i |-> 0, stores |-> 0]
sq_r_init == [pc |-> "idle", kind |-> "try_load", seq1 |-> 0, buffer |-> << >>,
              t |-> caller_t, ret |-> "none"]

\* after seqlock_object() (store_all_zeroes, seq = 0) or after seqlock_object(T t)
\* (store(t) on the fresh object: seq 0 -> 2)
InitSeqlock ==
    /\ \/ /\ data = all_zeroes
          /\ seq = 0
          /\ sq_stored = {from_buffer(all_zeroes)}
       \/ \E t \in Values :
            /\ data = to_buffer(t)
            /\ seq = 2
            /\ sq_stored = {t}
    /\ sq_w = sq_w_init
    /\ sq_r = [r \in SeqReaders |-> sq_r_init]

(***************************************************************************)
(* reclaim_object<T>                                                       *)
(* A T is an integer; objects live at addresses 1, 2, ... handed out by    *)
(* make_unique in order; address 0 is nullptr.                             *)
(***************************************************************************)
\* reader threads (each owns at most one reader at a time) and writer threads
RoReaders == {1, 2}
RoWriters == {1, 2}
\* number of T objects ever allocated (the constructor's one included)
MaxObjs == 3

nullptr == 0
\* the T the constructor is given, and what a read of freed memory may yield
\* besides the old contents
InitialT == 0
Garbage == 99
\* what a writer does to its copy through write_ptr::operator* ("write_ptr->j = 4")
modify(t) == t + 10

\* mutant: an exchange that hands back the stored pointer without storing the new one
exchange_keeps_ptr(ptr, desired) == [ptr |-> ptr, ret |-> ptr]

\* crill::atomic_unique_ptr<T>::exchange: installs desired, returns what was stored
exchange(ptr, desired) == [ptr |-> desired, ret |-> ptr]

\* mutant: a predicate that misses a reader whose min_epoch is the epoch itself
reader_uses_epoch_strict(reader_epoch, epoch) == reader_epoch # 0 /\ reader_epoch < epoch

\* mutant: a predicate that never finds a reader
reader_uses_epoch_never(reader_epoch, epoch) == FALSE

\* mutant: a predicate that takes min_epoch 0 (no read_ptr) for an epoch in use
reader_uses_epoch_zero(reader_epoch, epoch) == reader_epoch <= epoch

\* mutant: a predicate that takes any reader with a read_ptr for a user of the epoch
reader_uses_epoch_open(reader_epoch, epoch) == reader_epoch # 0

\* has_readers_using_epoch, the predicate of any_of for one reader:
\* "reader_epoch != 0 && reader_epoch <= epoch"
reader_uses_epoch(reader_epoch, epoch) == reader_epoch # 0 /\ reader_epoch <= epoch

\* reclaim(): "zombies.erase(remove_if(... zombie.value == nullptr ...))"
RECURSIVE erase_null(_)
erase_null(zs) ==
    IF zs = << >> THEN << >>
    ELSE IF Head(zs).value = nullptr THEN erase_null(Tail(zs))
         ELSE <<Head(zs)>> \o erase_null(Tail(zs))

\* mutant: an unregister that erases the first registered reader, whoever it is
erase_first(rs, r) == IF rs = << >> THEN << >> ELSE Tail(rs)

\* readers.erase(std::find(readers.begin(), readers.end(), rdr))
RECURSIVE erase_reader(_, _)
erase_reader(rs, r) ==
    IF rs = << >> THEN << >>
    ELSE IF Head(rs) = r THEN Tail(rs)
         ELSE <<Head(rs)>> \o erase_reader(Tail(rs), r)

\* the next address make_unique returns
next_address == Len(heap) + 1

\* the arguments of update(): the writers pass a different T each time, the n-th
\* T constructed being n (as the index of the tests' counted_t)
UpdateArgs == {next_address}

ro_rd_idle == [pc |-> "idle", epoch |-> 0, value_read |-> nullptr]
\* call: the member function the writer is in ("update", or "write_lock" from the
\* construction of a write_ptr to the end of its destructor)
ro_wr_idle == [pc |-> "idle", new_value |-> nullptr, old_value |-> nullptr,
               loaded |-> nullptr, modified |-> FALSE, call |-> "none"]
\* quiet and referred are history of the running reclaim() call: whether RoQuiet
\* held at each of its steps so far, and the zombies the read_ptrs open at its
\* start referred to (a read_ptr opened later refers to no zombie of this call)
ro_gc_idle == [pc |-> "idle", k |-> 0, j |-> 0, quiet |-> TRUE, referred |-> {}]
\* after std::terminate no thread of the program takes a step, and after
\* ~reclaim_object no member function is called on the object
ro_ended(pc) == [rd |-> [r \in RoReaders |-> [ro_rd_idle EXCEPT !.pc = pc]],
                 wr |-> [w \in RoWriters |-> [ro_wr_idle EXCEPT !.pc = pc]],
                 gc |-> [ro_gc_idle EXCEPT !.pc = pc]]

\* ---- reader ----
\* get_reader(): reader::reader calls register_reader (readers_mtx held for the push_back)
GetReader(r) ==
    /\ ro_rd[r].pc = "none"
    /\ readers_mtx = "free"
    /\ readers' = Append(readers, r)
    /\ ro_rd' = [ro_rd EXCEPT ![r] = ro_rd_idle]
    /\ UNCHANGED <<value, zombies, zombies_mtx, readers_mtx, current_epoch, min_epoch,
                   heap, alive, ro_wr, ro_gc, not_reclaim>>

\* reader::~reader calls unregister_reader (readers_mtx held for find and erase)
DestroyReader(r) ==
    /\ ro_rd[r].pc = "idle"
    /\ readers_mtx = "free"
    /\ readers' = erase_reader(readers, r)
    /\ ro_rd' = [ro_rd EXCEPT ![r] = [ro_rd_idle EXCEPT !.pc = "none"]]
    /\ UNCHANGED <<value, zombies, zombies_mtx, readers_mtx, current_epoch, min_epoch,
                   heap, alive, ro_wr, ro_gc, not_reclaim>>

\* read_lock(): read_ptr::read_ptr, "rdr.obj.current_epoch.load()"
ReadPtrLoadEpoch(r) ==
    /\ ro_rd[r].pc = "idle"
    /\ ro_rd' = [ro_rd EXCEPT ![r] = [@ EXCEPT !.pc = "store", !.epoch = current_epoch]]
    /\ UNCHANGED <<value, zombies, zombies_mtx, readers, readers_mtx, current_epoch,
                   min_epoch, heap, alive, ro_wr, ro_gc, not_reclaim>>

\* mutant: a constructor that publishes an epoch later than the one it loaded
ReadPtrStoreEpochLate(r) ==
    /\ ro_rd[r].pc = "store"
    /\ min_epoch' = [min_epoch EXCEPT ![r] = ro_rd[r].epoch + 1]
    /\ ro_rd' = [ro_rd EXCEPT ![r] =
            [@ EXCEPT !.pc = IF assertions THEN "assert" ELSE "load", !.epoch = 0]]
    /\ UNCHANGED <<value, zombies, zombies_mtx, readers, readers_mtx, current_epoch,
                   heap, alive, ro_wr, ro_gc, not_reclaim>>

\* read_ptr::read_ptr, "rdr.min_epoch.store(...)"
ReadPtrStoreEpoch(r) ==
    /\ ro_rd[r].pc = "store"
    /\ min_epoch' = [min_epoch EXCEPT ![r] = ro_rd[r].epoch]
    /\ ro_rd' = [ro_rd EXCEPT ![r] =
            [@ EXCEPT !.pc = IF assertions THEN "assert" ELSE "load", !.epoch = 0]]
    /\ UNCHANGED <<value, zombies, zombies_mtx, readers, readers_mtx, current_epoch,
                   heap, alive, ro_wr, ro_gc, not_reclaim>>

\* read_ptr::read_ptr, "assert(rdr.min_epoch =! 0)": when assert is compiled in, this
\* is the assignment rdr.min_epoch = (!0), which stores 1
ReadPtrAssert(r) ==
    /\ ro_rd[r].pc = "assert"
    /\ min_epoch' = [min_epoch EXCEPT ![r] = 1]
    /\ ro_rd' = [ro_rd EXCEPT ![r] = [@ EXCEPT !.pc = "load"]]
    /\ UNCHANGED <<value, zombies, zombies_mtx, readers, readers_mtx, current_epoch,
                   heap, alive, ro_wr, ro_gc, not_reclaim>>

\* mutant: a constructor that takes readers_mtx and zombies_mtx to load the value
ReadPtrLoadValueLocked(r) ==
    /\ ro_rd[r].pc = "load"
    /\ readers_mtx = "free" /\ zombies_mtx = "free"
    /\ ro_rd' = [ro_rd EXCEPT ![r] = [@ EXCEPT !.pc = "open", !.value_read = value]]
    /\ UNCHANGED <<value, zombies, zombies_mtx, readers, readers_mtx, current_epoch,
                   min_epoch, heap, alive, ro_wr, ro_gc, not_reclaim>>

\* read_ptr::read_ptr, "value_read = rdr.obj.value.load()": the read_ptr is open
ReadPtrLoadValue(r) ==
    /\ ro_rd[r].pc = "load"
    /\ ro_rd' = [ro_rd EXCEPT ![r] = [@ EXCEPT !.pc = "open", !.value_read = value]]
    /\ UNCHANGED <<value, zombies, zombies_mtx, readers, readers_mtx, current_epoch,
                   min_epoch, heap, alive, ro_wr, ro_gc, not_reclaim>>

\* mutant: a destructor that leaves min_epoch as it is
ReadPtrCloseKeepsEpoch(r) ==
    /\ ro_rd[r].pc = "open"
    /\ ro_rd' = [ro_rd EXCEPT ![r] = ro_rd_idle]
    /\ UNCHANGED <<value, zombies, zombies_mtx, readers, readers_mtx, current_epoch,
                   min_epoch, heap, alive, ro_wr, ro_gc, not_reclaim>>

\* read_ptr::~read_ptr, "rdr.min_epoch.store(0)"
ReadPtrClose(r) ==
    /\ ro_rd[r].pc = "open"
    /\ min_epoch' = [min_epoch EXCEPT ![r] = 0]
    /\ ro_rd' = [ro_rd EXCEPT ![r] = ro_rd_idle]
    /\ UNCHANGED <<value, zombies, zombies_mtx, readers, readers_mtx, current_epoch,
                   heap, alive, ro_wr, ro_gc, not_reclaim>>

\* read_ptr::operator*: what reading the T at value_read can yield; a read of a
\* destroyed T is undefined and yields the old contents or garbage
deref(r) ==
    IF ro_rd[r].value_read \in alive
    THEN {heap[ro_rd[r].value_read]}
    ELSE {heap[ro_rd[r].value_read], Garbage}

\* ---- writer ----
\* update(args...): "std::make_unique<T>(args...)"
UpdateCall(w, t) ==
    /\ ro_wr[w].pc = "idle"
    /\ next_address <= MaxObjs
    /\ heap' = Append(heap, t)
    /\ alive' = alive \cup {next_address}
    /\ ro_wr' = [ro_wr EXCEPT ![w] = [@ EXCEPT !.pc = "exchange", !.new_value = next_address,
                                              !.call = "update"]]
    /\ UNCHANGED <<value, zombies, zombies_mtx, readers, readers_mtx, current_epoch,
                   min_epoch, ro_rd, ro_gc, not_reclaim>>

\* mutant: an update that has already advanced the epoch when its allocation fails
UpdateAllocFailsAfterRetire(w) ==
    /\ ro_wr[w].pc = "idle"
    /\ current_epoch' = current_epoch + 1
    /\ ro_wr' = [ro_wr EXCEPT ![w] = [@ EXCEPT !.pc = "bad_alloc"]]
    /\ UNCHANGED <<value, zombies, zombies_mtx, readers, readers_mtx,
                   min_epoch, heap, alive, ro_rd, ro_gc, not_reclaim>>

\* update(args...): std::make_unique<T> throws std::bad_alloc; the argument of
\* exchange_and_retire is never produced, so exchange_and_retire is not entered
UpdateAllocFails(w) ==
    /\ ro_wr[w].pc = "idle"
    /\ ro_wr' = [ro_wr EXCEPT ![w] = [@ EXCEPT !.pc = "bad_alloc"]]
    /\ UNCHANGED <<value, zombies, zombies_mtx, readers, readers_mtx, current_epoch,
                   min_epoch, heap, alive, ro_rd, ro_gc, not_reclaim>>

\* write_lock(): write_ptr::write_ptr, "obj.value.load()"
WritePtrLoad(w) ==
    /\ ro_wr[w].pc = "idle"
    /\ next_address <= MaxObjs
    /\ ro_wr' = [ro_wr EXCEPT ![w] = [@ EXCEPT !.pc = "copy", !.loaded = value,
                                              !.call = "write_lock"]]
    /\ UNCHANGED <<value, zombies, zombies_mtx, readers, readers_mtx, current_epoch,
                   min_epoch, heap, alive, ro_rd, ro_gc, not_reclaim>>

\* write_ptr::write_ptr, "new_value(std::make_unique<T>(*...))": copies the T at the
\* loaded address; if that T has been destroyed the copy reads freed memory
WritePtrCopy(w) ==
    /\ ro_wr[w].pc = "copy"
    /\ \E t \in (IF ro_wr[w].loaded \in alive
                 THEN {heap[ro_wr[w].loaded]}
                 ELSE {heap[ro_wr[w].loaded], Garbage}) :
          heap' = Append(heap, t)
    /\ alive' = alive \cup {next_address}
    /\ ro_wr' = [ro_wr EXCEPT ![w] = [@ EXCEPT !.pc = "write_ptr", !.new_value = next_address]]
    /\ UNCHANGED <<value, zombies, zombies_mtx, readers, readers_mtx, current_epoch,
                   min_epoch, ro_rd, ro_gc, not_reclaim>>

\* write_ptr::write_ptr: std::make_unique<T> throws std::bad_alloc in the member
\* initializer; the write_ptr is not constructed, so its destructor never runs
WritePtrAllocFails(w) ==
    /\ ro_wr[w].pc = "copy"
    /\ ro_wr' = [ro_wr EXCEPT ![w] = [@ EXCEPT !.pc = "bad_alloc", !.loaded = nullptr]]
    /\ UNCHANGED <<value, zombies, zombies_mtx, readers, readers_mtx, current_epoch,
                   min_epoch, heap, alive, ro_rd, ro_gc, not_reclaim>>

\* the caller of update() / write_lock() handles the exception and carries on
CatchBadAlloc(w) ==
    /\ ro_wr[w].pc = "bad_alloc"
    /\ ro_wr' = [ro_wr EXCEPT ![w] = ro_wr_idle]
    /\ UNCHANGED <<value, zombies, zombies_mtx, readers, readers_mtx, current_epoch,
                   min_epoch, heap, alive, ro_rd, ro_gc, not_reclaim>>

\* write_ptr::operator*: "return *new_value"
write_ptr_deref(w) == ro_wr[w].new_value

\* a write through write_ptr::operator* / operator->
WritePtrModify(w) ==
    /\ ro_wr[w].pc = "write_ptr"
    /\ ~ro_wr[w].modified
    /\ heap' = [heap EXCEPT ![write_ptr_deref(w)] = modify(@)]
    /\ ro_wr' = [ro_wr EXCEPT ![w] = [@ EXCEPT !.modified = TRUE]]
    /\ UNCHANGED <<value, zombies, zombies_mtx, readers, readers_mtx, current_epoch,
                   min_epoch, alive, ro_rd, ro_gc, not_reclaim>>

\* exchange_and_retire: "auto old_value = value.exchange(std::move(new_value))",
\* reached from update() and from write_ptr::~write_ptr
Exchange(w) ==
    /\ ro_wr[w].pc \in {"exchange", "write_ptr"}
    /\ value' = exchange(value, ro_wr[w].new_value).ptr
    /\ ro_wr' = [ro_wr EXCEPT ![w] =
            [@ EXCEPT !.pc = "lock", !.old_value = exchange(value, ro_wr[w].new_value).ret,
                      !.new_value = nullptr, !.loaded = nullptr, !.modified = FALSE]]
    /\ UNCHANGED <<zombies, zombies_mtx, readers, readers_mtx, current_epoch,
                   min_epoch, heap, alive, ro_rd, ro_gc, not_reclaim>>

\* mutant: a writer that acquires zombies_mtx only when no read_ptr exists
RetireLockNoReaders(w) ==
    /\ ro_wr[w].pc = "lock"
    /\ zombies_mtx = "free"
    /\ \A r \in RoReaders : min_epoch[r] = 0
    /\ zombies_mtx' = "writer"
    /\ ro_wr' = [ro_wr EXCEPT ![w] = [@ EXCEPT !.pc = "retire"]]
    /\ UNCHANGED <<value, zombies, readers, readers_mtx, current_epoch,
                   min_epoch, heap, alive, ro_rd, ro_gc, not_reclaim>>

\* exchange_and_retire: "std::scoped_lock lock(zombies_mtx)"
RetireLock(w) ==
    /\ ro_wr[w].pc = "lock"
    /\ zombies_mtx = "free"
    /\ zombies_mtx' = "writer"
    /\ ro_wr' = [ro_wr EXCEPT ![w] = [@ EXCEPT !.pc = "retire"]]
    /\ UNCHANGED <<value, zombies, readers, readers_mtx, current_epoch,
                   min_epoch, heap, alive, ro_rd, ro_gc, not_reclaim>>

\* mutant: a retire that puts the newest zombie at the front of the list
push_front(zs, z) == <<z>> \o zs

\* std::vector<zombie>::push_back
push_back(zs, z) == Append(zs, z)

\* exchange_and_retire: "zombies.push_back({current_epoch.fetch_add(1), std::move(old_value)})"
\* returns, and zombies_mtx is released at the end of the scope.  The other outcome
\* of the statement, push_back throwing std::bad_alloc, is RetireAllocFails (from
\* update) or RetireAllocFailsTerminates (from ~write_ptr).
Retire(w) ==
    /\ ro_wr[w].pc = "retire"
    /\ zombies' = push_back(zombies, [epoch_when_retired |-> current_epoch,
                                      value |-> ro_wr[w].old_value])
    /\ current_epoch' = current_epoch + 1
    /\ zombies_mtx' = "free"
    /\ ro_wr' = [ro_wr EXCEPT ![w] = ro_wr_idle]
    /\ UNCHANGED <<value, readers, readers_mtx, min_epoch, heap, alive, ro_rd, ro_gc,
                   not_reclaim>>

\* exchange_and_retire called by update(): the temporary zombie is built
\* (current_epoch.fetch_add(1), the old value moved into it) and
\* std::vector::push_back throws std::bad_alloc; the temporary is destroyed and
\* the old value with it, zombies_mtx is released and the exception leaves update()
RetireAllocFails(w) ==
    /\ ro_wr[w].pc = "retire"
    /\ ro_wr[w].call = "update"
    /\ current_epoch' = current_epoch + 1
    /\ alive' = alive \ {ro_wr[w].old_value}
    /\ zombies_mtx' = "free"
    /\ ro_wr' = [ro_wr EXCEPT ![w] = [@ EXCEPT !.pc = "bad_alloc", !.old_value = nullptr]]
    /\ UNCHANGED <<value, zombies, readers, readers_mtx, min_epoch, heap, ro_rd, ro_gc,
                   not_reclaim>>

\* exchange_and_retire called by ~write_ptr: the same failure reaches the
\* destructor, which is noexcept, so std::terminate will be called; whether the
\* stack is unwound before that (the temporary zombie destroyed and zombies_mtx
\* released by the scoped_lock) is implementation-defined.  The other threads
\* run on until std::terminate is reached.
RetireAllocFailsTerminates(w) ==
    /\ ro_wr[w].pc = "retire"
    /\ ro_wr[w].call = "write_lock"
    /\ current_epoch' = current_epoch + 1
    /\ \E unwound \in BOOLEAN :
          IF unwound
          THEN alive' = alive \ {ro_wr[w].old_value} /\ zombies_mtx' = "free"
          ELSE UNCHANGED <<alive, zombies_mtx>>
    /\ ro_wr' = [ro_wr EXCEPT ![w] = [@ EXCEPT !.pc = "terminate", !.old_value = nullptr]]
    /\ UNCHANGED <<value, zombies, readers, readers_mtx, min_epoch, heap, ro_rd, ro_gc,
                   not_reclaim>>

\* std::terminate, reached by writer w: the program ends
Terminate(w) ==
    /\ ro_wr[w].pc = "terminate"
    /\ ro_rd' = ro_ended("terminated").rd
    /\ ro_wr' = ro_ended("terminated").wr
    /\ ro_gc' = ro_ended("terminated").gc
    /\ UNCHANGED <<value, zombies, zombies_mtx, readers, readers_mtx, current_epoch,
                   min_epoch, heap, alive, not_reclaim>>

\* ---- reclaim() ----
\* no read_ptr exists or is being made, and no update or write_ptr is under way
RoQuiet ==
    /\ \A r \in RoReaders : ro_rd[r].pc \in {"none", "idle"}
    /\ \A w \in RoWriters : ro_wr[w].pc = "idle"

\* the retired values that open read_ptrs refer to
RoReferred ==
    {zombies[k].value : k \in 1..Len(zombies)}
        \cap {ro_rd[r].value_read : r \in {x \in RoReaders : ro_rd[x].pc = "open"}}

\* reclaim(): "std::scoped_lock lock(zombies_mtx)"
ReclaimLock ==
    /\ ro_gc.pc = "idle"
    /\ zombies_mtx = "free"
    /\ zombies_mtx' = "reclaim"
    /\ ro_gc' = [ro_gc EXCEPT !.pc = "loop", !.k = 1, !.quiet = RoQuiet,
                               !.referred = RoReferred]
    /\ UNCHANGED <<value, zombies, readers, readers_mtx, current_epoch,
                   min_epoch, heap, alive, ro_rd, ro_wr, not_reclaim>>

\* reclaim(): "for (auto& zombie : zombies)": the loop ends, or the next zombie's
\* has_readers_using_epoch begins with "std::scoped_lock lock(readers_mtx)"
ReclaimLoop ==
    /\ ro_gc.pc = "loop"
    /\ IF ro_gc.k > Len(zombies)
       THEN /\ ro_gc' = [ro_gc EXCEPT !.pc = "erase", !.quiet = @ /\ RoQuiet]
            /\ UNCHANGED readers_mtx
       ELSE /\ readers_mtx = "free"
            /\ readers_mtx' = "reclaim"
            /\ ro_gc' = [ro_gc EXCEPT !.pc = "scan", !.j = 1, !.quiet = @ /\ RoQuiet]
    /\ UNCHANGED <<value, zombies, zombies_mtx, readers, current_epoch,
                   min_epoch, heap, alive, ro_rd, ro_wr, not_reclaim>>

\* mutant: a has_readers_using_epoch that returns true without releasing readers_mtx
ReclaimScanKeepsLock ==
    /\ ro_gc.pc = "scan"
    /\ IF ro_gc.j > Len(readers)
       THEN /\ readers_mtx' = "free"
            /\ ro_gc' = [ro_gc EXCEPT !.pc = "reset", !.j = 0, !.quiet = @ /\ RoQuiet]
            /\ UNCHANGED <<alive, zombies>>
       ELSE IF reader_uses_epoch(min_epoch[readers[ro_gc.j]],
                                 zombies[ro_gc.k].epoch_when_retired)
            THEN /\ ro_gc' = [ro_gc EXCEPT !.pc = "loop", !.k = @ + 1, !.j = 0,
                                            !.quiet = @ /\ RoQuiet]
                 /\ UNCHANGED <<alive, zombies, readers_mtx>>
            ELSE /\ ro_gc' = [ro_gc EXCEPT !.j = @ + 1, !.quiet = @ /\ RoQuiet]
                 /\ UNCHANGED <<alive, zombies, readers_mtx>>
    /\ UNCHANGED <<value, zombies_mtx, readers, current_epoch,
                   min_epoch, heap, ro_rd, ro_wr, not_reclaim>>

\* has_readers_using_epoch(zombie.epoch_when_retired): std::any_of looks at the next
\* reader's min_epoch.  At the first reader using the epoch it returns true and the
\* zombie is kept; at the end of the readers it returns false.  Either way
\* readers_mtx is released when has_readers_using_epoch returns.
ReclaimScan ==
    /\ ro_gc.pc = "scan"
    /\ IF ro_gc.j > Len(readers)
       THEN /\ readers_mtx' = "free"
            /\ ro_gc' = [ro_gc EXCEPT !.pc = "reset", !.j = 0, !.quiet = @ /\ RoQuiet]
            /\ UNCHANGED <<alive, zombies>>
       ELSE IF reader_uses_epoch(min_epoch[readers[ro_gc.j]],
                                 zombies[ro_gc.k].epoch_when_retired)
            THEN /\ readers_mtx' = "free"
                 /\ ro_gc' = [ro_gc EXCEPT !.pc = "loop", !.k = @ + 1, !.j = 0,
                                            !.quiet = @ /\ RoQuiet]
                 /\ UNCHANGED <<alive, zombies>>
            ELSE /\ ro_gc' = [ro_gc EXCEPT !.j = @ + 1, !.quiet = @ /\ RoQuiet]
                 /\ UNCHANGED <<alive, zombies, readers_mtx>>
    /\ UNCHANGED <<value, zombies_mtx, readers, current_epoch,
                   min_epoch, heap, ro_rd, ro_wr, not_reclaim>>

\* reclaim(): "zombie.value.reset()" after has_readers_using_epoch returned false;
\* readers_mtx is no longer held
ReclaimReset ==
    /\ ro_gc.pc = "reset"
    /\ alive' = alive \ {zombies[ro_gc.k].value}
    /\ zombies' = [zombies EXCEPT ![ro_gc.k].value = nullptr]
    /\ ro_gc' = [ro_gc EXCEPT !.pc = "loop", !.k = @ + 1, !.quiet = @ /\ RoQuiet]
    /\ UNCHANGED <<value, zombies_mtx, readers, readers_mtx, current_epoch,
                   min_epoch, heap, ro_rd, ro_wr, not_reclaim>>

\* reclaim(): "zombies.erase(std::remove_if(...))", then zombies_mtx is released
ReclaimErase ==
    /\ ro_gc.pc = "erase"
    /\ zombies' = erase_null(zombies)
    /\ zombies_mtx' = "free"
    /\ ro_gc' = ro_gc_idle
    /\ UNCHANGED <<value, readers, readers_mtx, current_epoch,
                   min_epoch, heap, alive, ro_rd, ro_wr, not_reclaim>>

\* ~reclaim_object (implicit), run when no reader object exists any more and no
\* member function is executing: the members are destroyed, the zombie list with
\* every retired value and the atomic_unique_ptr with the current value
Destructor ==
    /\ \A r \in RoReaders : ro_rd[r].pc = "none"
    /\ \A w \in RoWriters : ro_wr[w].pc = "idle"
    /\ ro_gc.pc = "idle"
    /\ alive' = alive \ ({value} \cup {zombies[k].value : k \in 1..Len(zombies)})
    /\ zombies' = << >>
    /\ value' = nullptr
    /\ ro_rd' = ro_ended("destroyed").rd
    /\ ro_wr' = ro_ended("destroyed").wr
    /\ ro_gc' = ro_ended("destroyed").gc
    /\ UNCHANGED <<zombies_mtx, readers, readers_mtx, current_epoch, min_epoch, heap,
                   not_reclaim>>

\* reclaim_object(Args... args): value(std::make_unique<T>(args...)), current_epoch = 1,
\* no reader, no zombie
InitReclaim ==
    /\ heap = <<InitialT>>
    /\ alive = {1}
    /\ value = 1
    /\ zombies = << >>
    /\ zombies_mtx = "free"
    /\ readers = << >>
    /\ readers_mtx = "free"
    /\ current_epoch = 1
    /\ min_epoch = [r \in RoReaders |-> 0]
    /\ ro_rd = [r \in RoReaders |-> [ro_rd_idle EXCEPT !.pc = "none"]]
    /\ ro_wr = [w \in RoWriters |-> ro_wr_idle]
    /\ ro_gc = ro_gc_idle

(***************************************************************************)
(* reclaim_on_write_object<T>                                              *)
(* A T is a struct of two integer members (test_t { i, j }); assigning a T *)
(* writes its members one after the other, so a slot can be seen half      *)
(* written. The slots are slots[0] and slots[1].                           *)
(***************************************************************************)
\* reader and writer threads
RwReaders == {1, 2}
RwWriters == {1, 2}
\* number of update / write_lock calls made in a run
MaxUpdates == 3

\* T(args...): both members constructed from the argument
RwT(v) == <<v, v>>
\* sizeof...(members of T)
RwMembers == {1, 2}

\* mutant: a writer that writes into the slot the readers are directed to
same_slot(slot) == slot

\* "current_read_slot.load() ^ 1"
other_slot(slot) == 1 - slot

\* mutant: a wait that misses the readers whose min_epoch is the retired epoch itself
rw_reader_uses_epoch_strict(reader_epoch, epoch) == reader_epoch # 0 /\ reader_epoch < epoch

\* mutant: a wait that no reader holds up
rw_reader_uses_epoch_never(reader_epoch, epoch) == FALSE

\* has_readers_using_epoch, the predicate of any_of for one reader:
\* "reader_epoch != 0 && reader_epoch <= epoch"
rw_reader_uses_epoch(reader_epoch, epoch) == reader_epoch # 0 /\ reader_epoch <= epoch

rw_rd_idle == [pc |-> "idle", epoch |-> 0, read_slot |-> 0]
rw_wr_idle == [pc |-> "idle", write_slot |-> 0, arg |-> 0, i |-> 0, modified |-> FALSE,
               retired_epoch |-> 0, j |-> 0]

\* ---- reader ----
\* get_reader(): reader::reader -> register_reader, under readers_mtx
RwGetReader(r) ==
    /\ rw_rd[r].pc = "none"
    /\ rw_readers_mtx = "free"
    /\ rw_readers' = Append(rw_readers, r)
    /\ rw_rd' = [rw_rd EXCEPT ![r] = rw_rd_idle]
    /\ UNCHANGED <<rw_slots, rw_current_read_slot, rw_readers_mtx, rw_current_epoch,
                   rw_min_epoch, rw_wr, rw_updates, not_row>>

\* reader::~reader -> unregister_reader, under readers_mtx
RwDestroyReader(r) ==
    /\ rw_rd[r].pc = "idle"
    /\ rw_readers_mtx = "free"
    /\ rw_readers' = erase_reader(rw_readers, r)
    /\ rw_rd' = [rw_rd EXCEPT ![r] = [rw_rd_idle EXCEPT !.pc = "none"]]
    /\ UNCHANGED <<rw_slots, rw_current_read_slot, rw_readers_mtx, rw_current_epoch,
                   rw_min_epoch, rw_wr, rw_updates, not_row>>

\* read_ptr::read_ptr: "rdr.obj.current_epoch.load()"
RwReadPtrLoadEpoch(r) ==
    /\ rw_rd[r].pc = "idle"
    /\ rw_rd' = [rw_rd EXCEPT ![r] = [@ EXCEPT !.pc = "store", !.epoch = rw_current_epoch]]
    /\ UNCHANGED <<rw_slots, rw_current_read_slot, rw_readers, rw_readers_mtx,
                   rw_current_epoch, rw_min_epoch, rw_wr, rw_updates, not_row>>

\* read_ptr::read_ptr: "rdr.min_epoch.store(...)"
RwReadPtrStoreEpoch(r) ==
    /\ rw_rd[r].pc = "store"
    /\ rw_min_epoch' = [rw_min_epoch EXCEPT ![r] = rw_rd[r].epoch]
    /\ rw_rd' = [rw_rd EXCEPT ![r] = [@ EXCEPT !.pc = IF assertions THEN "assert" ELSE "load"]]
    /\ UNCHANGED <<rw_slots, rw_current_read_slot, rw_readers, rw_readers_mtx,
                   rw_current_epoch, rw_wr, rw_updates, not_row>>

\* read_ptr::read_ptr: "assert(rdr.min_epoch =! 0)", an assignment of !0 = 1
RwReadPtrAssert(r) ==
    /\ rw_rd[r].pc = "assert"
    /\ rw_min_epoch' = [rw_min_epoch EXCEPT ![r] = 1]
    /\ rw_rd' = [rw_rd EXCEPT ![r] = [@ EXCEPT !.pc = "load"]]
    /\ UNCHANGED <<rw_slots, rw_current_read_slot, rw_readers, rw_readers_mtx,
                   rw_current_epoch, rw_wr, rw_updates, not_row>>

\* read_ptr::read_ptr: "read_slot = rdr.obj.current_read_slot.load()"
RwReadPtrLoadSlot(r) ==
    /\ rw_rd[r].pc = "load"
    /\ rw_rd' = [rw_rd EXCEPT ![r] = [@ EXCEPT !.pc = "open", !.read_slot = rw_current_read_slot]]
    /\ UNCHANGED <<rw_slots, rw_current_read_slot, rw_readers, rw_readers_mtx,
                   rw_current_epoch, rw_min_epoch, rw_wr, rw_updates, not_row>>

\* read_ptr::~read_ptr: "rdr.min_epoch.store(0)"
RwReadPtrClose(r) ==
    /\ rw_rd[r].pc = "open"
    /\ rw_min_epoch' = [rw_min_epoch EXCEPT ![r] = 0]
    /\ rw_rd' = [rw_rd EXCEPT ![r] = rw_rd_idle]
    /\ UNCHANGED <<rw_slots, rw_current_read_slot, rw_readers, rw_readers_mtx,
                   rw_current_epoch, rw_wr, rw_updates, not_row>>

\* read_ptr::operator*: "rdr.obj.slots[read_slot]"
rw_deref(r) == rw_slots[rw_rd[r].read_slot]
RwOpen(r) == rw_rd[r].pc = "open"

\* ---- writer ----
\* update(args...): "write_slot = current_read_slot.load() ^ 1"
RwUpdateCall(w) ==
    /\ rw_wr[w].pc = "idle"
    /\ rw_updates < MaxUpdates
    /\ rw_updates' = rw_updates + 1
    /\ rw_wr' = [rw_wr EXCEPT ![w] = [@ EXCEPT !.pc = "write", !.i = 1,
                                              !.arg = rw_updates + 1,
                                              !.write_slot = other_slot(rw_current_read_slot)]]
    /\ UNCHANGED <<rw_slots, rw_current_read_slot, rw_readers, rw_readers_mtx,
                   rw_current_epoch, rw_min_epoch, rw_rd, not_row>>

\* update(args...): "slots[write_slot] = T(args...)", one member at a time
RwUpdateWrite(w) ==
    /\ rw_wr[w].pc = "write"
    /\ rw_slots' = [rw_slots EXCEPT ![rw_wr[w].write_slot][rw_wr[w].i] = RwT(rw_wr[w].arg)[rw_wr[w].i]]
    /\ rw_wr' = [rw_wr EXCEPT ![w] = IF rw_wr[w].i + 1 \in RwMembers
                                     THEN [@ EXCEPT !.i = @ + 1]
                                     ELSE [@ EXCEPT !.i = 0, !.pc = "store_slot"]]
    /\ UNCHANGED <<rw_current_read_slot, rw_readers, rw_readers_mtx, rw_current_epoch,
                   rw_min_epoch, rw_rd, rw_updates, not_row>>

\* write_ptr::write_ptr: "write_slot(obj.current_read_slot.load() ^ 1)"
RwWritePtrCall(w) ==
    /\ rw_wr[w].pc = "idle"
    /\ rw_updates < MaxUpdates
    /\ rw_updates' = rw_updates + 1
    /\ rw_wr' = [rw_wr EXCEPT ![w] = [@ EXCEPT !.pc = "copy", !.i = 1,
                                              !.write_slot = other_slot(rw_current_read_slot)]]
    /\ UNCHANGED <<rw_slots, rw_current_read_slot, rw_readers, rw_readers_mtx,
                   rw_current_epoch, rw_min_epoch, rw_rd, not_row>>

\* write_ptr::write_ptr: "obj.slots[write_slot] = obj.slots[write_slot ^ 1]",
\* one member at a time
RwWritePtrCopy(w) ==
    /\ rw_wr[w].pc = "copy"
    /\ rw_slots' = [rw_slots EXCEPT ![rw_wr[w].write_slot][rw_wr[w].i] =
                        rw_slots[other_slot(rw_wr[w].write_slot)][rw_wr[w].i]]
    /\ rw_wr' = [rw_wr EXCEPT ![w] = IF rw_wr[w].i + 1 \in RwMembers
                                     THEN [@ EXCEPT !.i = @ + 1]
                                     ELSE [@ EXCEPT !.i = 0, !.pc = "write_ptr"]]
    /\ UNCHANGED <<rw_current_read_slot, rw_readers, rw_readers_mtx, rw_current_epoch,
                   rw_min_epoch, rw_rd, rw_updates, not_row>>

\* a write through write_ptr::operator->: "write_ptr->j = ..."
RwWritePtrModify(w) ==
    /\ rw_wr[w].pc = "write_ptr"
    /\ ~rw_wr[w].modified
    /\ rw_slots' = [rw_slots EXCEPT ![rw_wr[w].write_slot][2] = modify(@)]
    /\ rw_wr' = [rw_wr EXCEPT ![w] = [@ EXCEPT !.modified = TRUE]]
    /\ UNCHANGED <<rw_current_read_slot, rw_readers, rw_readers_mtx, rw_current_epoch,
                   rw_min_epoch, rw_rd, rw_updates, not_row>>

\* swap_slot_and_wait_for_readers: "current_read_slot.store(write_slot)", reached
\* from update() and from write_ptr::~write_ptr
RwStoreSlot(w) ==
    /\ rw_wr[w].pc \in {"store_slot", "write_ptr"}
    /\ rw_current_read_slot' = rw_wr[w].write_slot
    /\ rw_wr' = [rw_wr EXCEPT ![w] = [@ EXCEPT !.pc = "fetch_add", !.modified = FALSE]]
    /\ UNCHANGED <<rw_slots, rw_readers, rw_readers_mtx, rw_current_epoch,
                   rw_min_epoch, rw_rd, rw_updates, not_row>>

\* swap_slot_and_wait_for_readers: "retired_epoch = current_epoch.fetch_add(1)"
RwFetchAdd(w) ==
    /\ rw_wr[w].pc = "fetch_add"
    /\ rw_current_epoch' = rw_current_epoch + 1
    /\ rw_wr' = [rw_wr EXCEPT ![w] = [@ EXCEPT !.pc = "wait", !.retired_epoch = rw_current_epoch]]
    /\ UNCHANGED <<rw_slots, rw_current_read_slot, rw_readers, rw_readers_mtx,
                   rw_min_epoch, rw_rd, rw_updates, not_row>>

\* has_readers_using_epoch: "std::scoped_lock lock(readers_mtx)"
RwWaitLock(w) ==
    /\ rw_wr[w].pc = "wait"
    /\ rw_readers_mtx = "free"
    /\ rw_readers_mtx' = "held"
    /\ rw_wr' = [rw_wr EXCEPT ![w] = [@ EXCEPT !.pc = "scan", !.j = 1]]
    /\ UNCHANGED <<rw_slots, rw_current_read_slot, rw_readers, rw_current_epoch,
                   rw_min_epoch, rw_rd, rw_updates, not_row>>

\* mutant: a publish that looks for readers using the retired epoch once and returns
\* whatever it finds
RwWaitScanOnce(w) ==
    /\ rw_wr[w].pc = "scan"
    /\ IF rw_wr[w].j > Len(rw_readers)
       THEN /\ rw_wr' = [rw_wr EXCEPT ![w] = rw_wr_idle]
            /\ rw_readers_mtx' = "free"
       ELSE IF rw_reader_uses_epoch(rw_min_epoch[rw_readers[rw_wr[w].j]], rw_wr[w].retired_epoch)
            THEN /\ rw_wr' = [rw_wr EXCEPT ![w] = rw_wr_idle]
                 /\ rw_readers_mtx' = "free"
            ELSE /\ rw_wr' = [rw_wr EXCEPT ![w] = [@ EXCEPT !.j = @ + 1]]
                 /\ UNCHANGED rw_readers_mtx
    /\ UNCHANGED <<rw_slots, rw_current_read_slot, rw_readers, rw_current_epoch,
                   rw_min_epoch, rw_rd, rw_updates, not_row>>

\* has_readers_using_epoch: any_of examines the next reader ("reader->min_epoch.load()");
\* on a hit the loop of swap_slot_and_wait_for_readers yields and calls it again,
\* on reaching the end the wait is over and the publish returns
RwWaitScan(w) ==
    /\ rw_wr[w].pc = "scan"
    /\ IF rw_wr[w].j > Len(rw_readers)
       THEN /\ rw_wr' = [rw_wr EXCEPT ![w] = rw_wr_idle]
            /\ rw_readers_mtx' = "free"
       ELSE IF rw_reader_uses_epoch(rw_min_epoch[rw_readers[rw_wr[w].j]], rw_wr[w].retired_epoch)
            THEN /\ rw_wr' = [rw_wr EXCEPT ![w] = [@ EXCEPT !.pc = "wait"]]
                 /\ rw_readers_mtx' = "free"
            ELSE /\ rw_wr' = [rw_wr EXCEPT ![w] = [@ EXCEPT !.j = @ + 1]]
                 /\ UNCHANGED rw_readers_mtx
    /\ UNCHANGED <<rw_slots, rw_current_read_slot, rw_readers, rw_current_epoch,
                   rw_min_epoch, rw_rd, rw_updates, not_row>>

\* reclaim_on_write_object(Args... args): both slots T(args...), current_read_slot = 0,
\* current_epoch = 1, no reader
InitROW ==
    /\ rw_slots = [slot \in {0, 1} |-> RwT(InitialT)]
    /\ rw_current_read_slot = 0
    /\ rw_readers = << >>
    /\ rw_readers_mtx = "free"
    /\ rw_current_epoch = 1
    /\ rw_min_epoch = [r \in RwReaders |-> 0]
    /\ rw_rd = [r \in RwReaders |-> [rw_rd_idle EXCEPT !.pc = "none"]]
    /\ rw_wr = [w \in RwWriters |-> rw_wr_idle]
    /\ rw_updates = 0

(***************************************************************************)
(* atomic_unique_ptr<T>                                                    *)
(***************************************************************************)
\* the threads using the atomic_unique_ptr
AuThreads == {1, 2}
\* number of objects that can be created (the one the container is constructed with
\* included); their addresses are among 1..AuMaxObjs, and an address is used again
\* when the object there has been deleted
AuMaxObjs == 3

\* std::atomic<T*>::compare_exchange_strong / _weak (expected, desired): on success
\* the stored address becomes desired; otherwise expected becomes the stored address;
\* the weak form may fail although the addresses are equal (spurious)
compare_exchange(ptr, expected, desired, spurious) ==
    IF ptr = expected /\ ~spurious
    THEN [ptr |-> desired, expected |-> expected, ok |-> TRUE]
    ELSE [ptr |-> ptr, expected |-> ptr, ok |-> FALSE]

\* mutant: a compare_exchange_impl that releases desired whether or not the
\* comparison succeeded
compare_exchange_impl_releases(ptr, expected, desired, spurious) ==
    LET cx == compare_exchange(ptr, expected, desired, spurious) IN
    IF cx.ok
    THEN [ptr |-> cx.ptr, expected |-> cx.expected, desired |-> nullptr,
          result |-> cx.expected, ret |-> "present"]
    ELSE [ptr |-> cx.ptr, expected |-> cx.expected, desired |-> nullptr,
          result |-> nullptr, ret |-> "absent"]

\* mutant: a compare_exchange_impl that, on success, hands back the address it has
\* just installed
compare_exchange_impl_returns_desired(ptr, expected, desired, spurious) ==
    LET cx == compare_exchange(ptr, expected, desired, spurious) IN
    IF cx.ok
    THEN [ptr |-> cx.ptr, expected |-> cx.expected, desired |-> nullptr,
          result |-> desired, ret |-> "present"]
    ELSE [ptr |-> cx.ptr, expected |-> cx.expected, desired |-> desired,
          result |-> nullptr, ret |-> "absent"]

\* compare_exchange_impl: "if (auto* desired_raw = desired.get();
\*   (ptr.*cx)(expected, desired_raw, mo)) { desired.release();
\*   return std::unique_ptr<T>(expected); } else return {};"
compare_exchange_impl(ptr, expected, desired, spurious) ==
    LET cx == compare_exchange(ptr, expected, desired, spurious) IN
    IF cx.ok
    THEN [ptr |-> cx.ptr, expected |-> cx.expected, desired |-> nullptr,
          result |-> cx.expected, ret |-> "present"]
    ELSE [ptr |-> cx.ptr, expected |-> cx.expected, desired |-> desired,
          result |-> nullptr, ret |-> "absent"]

\* "delete p": deleting nullptr does nothing
au_delete(deleted, p) ==
    IF p = nullptr THEN deleted ELSE [deleted EXCEPT ![p] = @ + 1]

\* the allocator's side of "delete p": the storage at p is free again
au_free(blocks, p) == blocks \ {p}

\* the addresses operator new can return: the storage of a deleted object, or
\* storage never used before (the lowest such address stands for all of them)
au_new(blocks, deleted) ==
    LET unused == {a \in 1..AuMaxObjs : a \notin blocks /\ deleted[a] = 0} IN
    {a \in 1..AuMaxObjs : a \notin blocks /\ deleted[a] > 0}
        \cup {a \in unused : \A b \in unused : a <= b}

\* a thread between calls, owning nothing: call and ret tell which member function
\* it called last and whether the optional it got was present
au_t_init == [pc |-> "idle", desired |-> nullptr, expected |-> nullptr,
              result |-> nullptr, call |-> "none", ret |-> "none"]

\* crill::atomic_unique_ptr<int> auptr(std::make_unique<int>()): the object at
\* address 1 is stored
InitAup ==
    /\ au_ptr = 1
    /\ au_live = TRUE
    /\ au_made = 1
    /\ au_installed = {1}
    /\ au_deleted = [a \in 1..AuMaxObjs |-> 0]
    /\ au_alive = {1}
    /\ au_t = [t \in AuThreads |-> au_t_init]

\* thread t: "auto uptr = std::make_unique<T>()" into its empty unique_ptr
AuMakeUnique(t) ==
    /\ au_t[t].pc = "idle"
    /\ au_t[t].desired = nullptr
    /\ au_made < AuMaxObjs
    /\ au_made' = au_made + 1
    /\ \E a \in au_new(au_alive, au_deleted) :
          /\ au_alive' = au_alive \cup {a}
          /\ au_t' = [au_t EXCEPT ![t].desired = a, ![t].call = "none",
                                  ![t].ret = "none"]
    /\ UNCHANGED <<au_ptr, au_live, au_installed, au_deleted, not_aup>>

\* mutant: an exchange that leaves the caller's unique_ptr owning the object it has
\* installed
AuExchangeKeepsDesired(t) ==
    /\ au_live
    /\ au_t[t].pc = "idle"
    /\ au_t[t].result = nullptr
    /\ LET x == exchange(au_ptr, au_t[t].desired) IN
        /\ au_ptr' = x.ptr
        /\ au_t' = [au_t EXCEPT ![t].result = x.ret, ![t].call = "exchange",
                                ![t].ret = "none"]
        /\ au_installed' = au_installed \cup ({x.ptr} \ {nullptr})
    /\ UNCHANGED <<au_live, au_made, au_deleted, au_alive, not_aup>>

\* thread t: "result = auptr.exchange(std::move(desired))":
\* return std::unique_ptr<T>(ptr.exchange(desired.release()))
AuExchange(t) ==
    /\ au_live
    /\ au_t[t].pc = "idle"
    /\ au_t[t].result = nullptr
    /\ LET x == exchange(au_ptr, au_t[t].desired) IN
        /\ au_ptr' = x.ptr
        /\ au_t' = [au_t EXCEPT ![t].desired = nullptr, ![t].result = x.ret,
                                ![t].call = "exchange", ![t].ret = "none"]
        /\ au_installed' = au_installed \cup ({x.ptr} \ {nullptr})
    /\ UNCHANGED <<au_live, au_made, au_deleted, au_alive, not_aup>>

\* thread t's unique_ptr holding a returned object goes out of scope: the object
\* is deleted
AuResultDrop(t) ==
    /\ au_t[t].pc = "idle"
    /\ au_t[t].result # nullptr
    /\ au_deleted' = au_delete(au_deleted, au_t[t].result)
    /\ au_alive' = au_free(au_alive, au_t[t].result)
    /\ au_t' = [au_t EXCEPT ![t].result = nullptr, ![t].call = "none", ![t].ret = "none"]
    /\ UNCHANGED <<au_ptr, au_live, au_made, au_installed, not_aup>>

\* thread t's unique_ptr desired goes out of scope: the object it still owns is deleted
AuDesiredDrop(t) ==
    /\ au_t[t].pc = "idle"
    /\ au_t[t].desired # nullptr
    /\ au_deleted' = au_delete(au_deleted, au_t[t].desired)
    /\ au_alive' = au_free(au_alive, au_t[t].desired)
    /\ au_t' = [au_t EXCEPT ![t].desired = nullptr, ![t].call = "none", ![t].ret = "none"]
    /\ UNCHANGED <<au_ptr, au_live, au_made, au_installed, not_aup>>

\* thread t assigns e to its T* expected ("int* ptr1 = uptr1.get()")
AuSetExpected(t, e) ==
    /\ au_t[t].pc = "idle"
    /\ au_t' = [au_t EXCEPT ![t].expected = e, ![t].call = "none", ![t].ret = "none"]
    /\ UNCHANGED <<au_ptr, au_live, au_made, au_installed, au_deleted, au_alive, not_aup>>

\* the effect of one call of compare_exchange_strong / _weak (call) by thread t on
\* the container, on t's expected and desired and on the result it gets; pc is
\* where t goes on when the result is absent
AuCompareExchangeCall(t, call, spurious, pc) ==
    LET r == compare_exchange_impl(au_ptr, au_t[t].expected, au_t[t].desired, spurious) IN
        /\ au_ptr' = r.ptr
        /\ au_t' = [au_t EXCEPT ![t] = [pc |-> IF r.ret = "present" THEN "idle" ELSE pc,
                                        desired |-> r.desired, expected |-> r.expected,
                                        result |-> r.result, call |-> call,
                                        ret |-> r.ret]]
        /\ au_installed' = au_installed \cup ({r.ptr} \ {nullptr})
        /\ UNCHANGED <<au_live, au_made, au_deleted, au_alive, not_aup>>

\* thread t: "result = auptr.compare_exchange_strong(expected, desired)"
AuCompareExchangeStrong(t) ==
    /\ au_live
    /\ au_t[t].pc = "idle"
    /\ au_t[t].result = nullptr
    /\ AuCompareExchangeCall(t, "strong", FALSE, "idle")

\* thread t: "result = auptr.compare_exchange_weak(expected, desired)"; the
\* comparison may fail spuriously
AuCompareExchangeWeak(t) ==
    /\ au_live
    /\ au_t[t].pc = "idle"
    /\ au_t[t].result = nullptr
    /\ \E spurious \in BOOLEAN : AuCompareExchangeCall(t, "weak", spurious, "idle")

\* thread t enters "do { result = auptr.compare_exchange_weak(expected, desired); }
\* while (!result)"
AuLoopBegin(t) ==
    /\ au_live
    /\ au_t[t].pc = "idle"
    /\ au_t[t].result = nullptr
    /\ au_t' = [au_t EXCEPT ![t].pc = "loop", ![t].call = "none", ![t].ret = "none"]
    /\ UNCHANGED <<au_ptr, au_live, au_made, au_installed, au_deleted, au_alive, not_aup>>

\* one iteration of that loop whose comparison fails spuriously
AuLoopSpurious(t) ==
    /\ au_t[t].pc = "loop"
    /\ au_ptr = au_t[t].expected
    /\ AuCompareExchangeCall(t, "weak", TRUE, "loop")

\* one iteration of that loop without spurious failure: the loop ends if the
\* addresses are equal, otherwise expected is updated and the loop goes on
AuLoopWeak(t) ==
    /\ au_t[t].pc = "loop"
    /\ AuCompareExchangeCall(t, "weak", FALSE, "loop")

\* mutant: a destructor that does not delete the managed object
AuDestructorLeaks ==
    /\ au_live
    /\ \A t \in AuThreads : au_t[t].pc = "idle"
    /\ au_live' = FALSE
    /\ UNCHANGED <<au_ptr, au_made, au_installed, au_deleted, au_alive, au_t, not_aup>>

\* ~atomic_unique_ptr(): "delete load();", after the threads have finished their
\* calls
AuDestructor ==
    /\ au_live
    /\ \A t \in AuThreads : au_t[t].pc = "idle"
    /\ au_live' = FALSE
    /\ au_deleted' = au_delete(au_deleted, au_ptr)
    /\ au_alive' = au_free(au_alive, au_ptr)
    /\ UNCHANGED <<au_ptr, au_made, au_installed, au_t, not_aup>>

(***************************************************************************)
(* Specifications: one per component, the other components being at rest   *)
(***************************************************************************)
\* a seqlock_object() nobody uses
RestSeqlock ==
    /\ data = all_zeroes /\ seq = 0 /\ sq_stored = {from_buffer(all_zeroes)}
    /\ sq_w = sq_w_init
    /\ sq_r = [r \in SeqReaders |-> sq_r_init]

InitSpecMutex ==
    InitMutex /\ RestSeqlock /\ assertions = FALSE /\ InitReclaim /\ InitROW /\ InitAup /\ RestBackoff

NextMutex ==
    \E t \in Threads :
        \/ TryLock(t)
        \/ TryLockHeld(t)
        \/ LockCall(t)
        \/ LockStage1(t)
        \/ LockStage2(t)
        \/ LockStage3(t)
        \/ LockYield(t)
        \/ Unlock(t)

InitSpecAup ==
    InitAup /\ InitMutex /\ RestSeqlock /\ assertions = FALSE /\ InitReclaim /\ InitROW /\ RestBackoff

\* two threads that create objects and call exchange, compare_exchange_strong and
\* compare_exchange_weak (once, or in a loop until it succeeds) on one
\* atomic_unique_ptr, which is destroyed in the end
NextAup ==
    \/ \E t \in AuThreads :
          \/ AuMakeUnique(t)
          \/ AuExchange(t)
          \/ AuResultDrop(t)
          \/ AuDesiredDrop(t)
          \/ \E e \in 0..au_made : AuSetExpected(t, e)
          \/ AuCompareExchangeStrong(t)
          \/ AuCompareExchangeWeak(t)
          \/ AuLoopBegin(t)
          \/ AuLoopSpurious(t)
          \/ AuLoopWeak(t)
    \/ AuDestructor

SpecAup == InitSpecAup /\ [][NextAup]_vars

\* thread 1 calls compare_exchange_strong and compare_exchange_weak, once or in a
\* loop until it succeeds, while thread 2 exchanges the objects it creates into the
\* container and deletes what it gets back
NextAupLoop ==
    \/ AuMakeUnique(1)
    \/ \E e \in 0..au_made : AuSetExpected(1, e)
    \/ AuCompareExchangeStrong(1)
    \/ AuCompareExchangeWeak(1)
    \/ AuLoopBegin(1)
    \/ AuLoopSpurious(1)
    \/ AuLoopWeak(1)
    \/ AuResultDrop(1)
    \/ AuMakeUnique(2)
    \/ AuExchange(2)
    \/ AuResultDrop(2)

\* Scheduling: a thread inside the compare_exchange_weak loop keeps running, and
\* does not see a spurious failure in every iteration forever
FairSpecAup ==
    /\ InitSpecAup
    /\ [][NextAupLoop]_vars
    /\ \A t \in AuThreads : WF_vars(AuLoopWeak(t))

SpecMutex == InitSpecMutex /\ [][NextMutex]_vars

\* The test "If mutex is held by other thread, lock succeeds after mutex is released":
\* thread 1 calls lock() (and may unlock and lock again); every other thread locks the
\* mutex once and unlocks it, and does not touch it again.
NextMutexHandover ==
    \/ \E t \in Threads \ {1} : ~m_ret[t] /\ LockCall(t)
    \/ \E t \in Threads :
          \/ LockStage1(t)
          \/ LockStage2(t)
          \/ LockStage3(t)
          \/ LockYield(t)
          \/ Unlock(t)
    \/ LockCall(1)
    \/ TryLockHeld(1)

\* Scheduling: a thread spinning in lock() keeps running (its loop makes the next
\* attempt, and after stage 3 it yields and comes back); nothing obliges a thread to
\* call lock() or unlock().
LockRuns(t) == LockStage1(t) \/ LockStage2(t) \/ LockStage3(t) \/ LockYield(t)

FairSpecMutexHandover ==
    InitSpecMutex /\ [][NextMutexHandover]_vars /\ WF_vars(LockRuns(1))

\* The test program: first the test "Waiting on a false predicate blocks until
\* predicate becomes true" (one thread calls progressive_backoff_wait, the other
\* writes the flag its predicate reads), and when that test is over, the threads
\* of the test "If mutex is held by other thread, lock succeeds after mutex is
\* released".
PbTestOver == pb_w.pc = "ended"

NextBackoffWait ==
    \/ \E v \in BOOLEAN : PbWriteFlag(v)
    \/ PbCall
    \/ PbStage1
    \/ PbStage2
    \/ PbStage3
    \/ PbYield
    \/ PbTestEnd
    \/ \E t \in Threads \ {1} : PbTestOver /\ ~m_ret[t] /\ LockCall(t)
    \/ \E t \in Threads :
          \/ PbTestOver /\ LockStage1(t)
          \/ PbTestOver /\ LockStage2(t)
          \/ PbTestOver /\ LockStage3(t)
          \/ PbTestOver /\ LockYield(t)
          \/ PbTestOver /\ Unlock(t)
    \/ PbTestOver /\ LockCall(1)
    \/ PbTestOver /\ TryLockHeld(1)

\* Scheduling: a thread inside progressive_backoff_wait keeps running, as one
\* spinning in lock() does
PbRuns == PbStage1 \/ PbStage2 \/ PbStage3 \/ PbYield

InitSpecBackoffWait ==
    /\ InitBackoff /\ InitMutex /\ RestSeqlock /\ assertions = FALSE /\ InitReclaim
    /\ InitROW /\ InitAup

FairSpecBackoffWait ==
    /\ InitSpecBackoffWait
    /\ [][NextBackoffWait]_vars
    /\ WF_vars(LockRuns(1))
    /\ WF_vars(PbRuns)

InitSpecSeqlock ==
    InitSeqlock /\ InitMutex /\ assertions = FALSE /\ InitReclaim /\ InitROW /\ InitAup /\ RestBackoff

NextSeqlock ==
    \/ \E t \in Values : StoreBegin(t)
    \/ StoreSeq1
    \/ StoreData
    \/ StoreSeq2
    \/ \E r \in SeqReaders :
          \/ LoadCall(r, "try_load")
          \/ LoadCall(r, "load")
          \/ LoadSeq1(r)
          \/ LoadData(r)
          \/ LoadSeq2(r)

SpecSeqlock == InitSpecSeqlock /\ [][NextSeqlock]_vars

\* the steps of a store() that has begun
SqStoreRuns == StoreSeq1 \/ StoreData \/ StoreSeq2
\* the steps of reader r's running load() or try_load()
SqLoadRuns(r) == LoadSeq1(r) \/ LoadData(r) \/ LoadSeq2(r)

\* a writer thread calling store() and one thread calling load() again and again
NextSeqlockLoad ==
    \/ \E t \in Values : StoreBegin(t)
    \/ StoreSeq1
    \/ StoreData
    \/ StoreSeq2
    \/ LoadCall(1, "load")
    \/ LoadSeq1(1)
    \/ LoadData(1)
    \/ LoadSeq2(1)

\* both threads keep being scheduled: a store() that has begun runs to its end, a
\* load() keeps retrying; the writer calls store() at most MaxStores times
FairSpecSeqlock ==
    /\ InitSpecSeqlock
    /\ [][NextSeqlockLoad]_vars
    /\ WF_vars(SqStoreRuns)
    /\ WF_vars(SqLoadRuns(1))

InitSpecReclaim ==
    /\ InitReclaim /\ assertions \in BOOLEAN /\ InitMutex /\ RestSeqlock /\ InitROW
    /\ InitAup
    /\ RestBackoff

\* two reader threads, one writer thread calling update, one thread calling reclaim()
NextReclaim ==
    \/ \E r \in RoReaders :
          \/ GetReader(r)
          \/ DestroyReader(r)
          \/ ReadPtrLoadEpoch(r)
          \/ ReadPtrStoreEpoch(r)
          \/ ReadPtrAssert(r)
          \/ ReadPtrLoadValue(r)
          \/ ReadPtrClose(r)
    \/ \E w \in {1} :
          \/ \E t \in UpdateArgs : UpdateCall(w, t)
          \/ Exchange(w)
          \/ RetireLock(w)
          \/ Retire(w)
    \/ ReclaimLock
    \/ ReclaimLoop
    \/ ReclaimScan
    \/ ReclaimReset
    \/ ReclaimErase

SpecReclaim == InitSpecReclaim /\ [][NextReclaim]_vars

\* Scheduling: a writer inside exchange_and_retire and a thread inside reclaim()
\* keep running, and a writer that finds zombies_mtx free again and again
\* eventually acquires it; nothing obliges a reader to take any step, a writer to
\* call update, or anyone to call reclaim().
RoPublishRuns(w) == Exchange(w) \/ Retire(w)
ReclaimRuns == ReclaimLoop \/ ReclaimScan \/ ReclaimReset \/ ReclaimErase

FairSpecReclaim ==
    /\ InitSpecReclaim
    /\ [][NextReclaim]_vars
    /\ WF_vars(RoPublishRuns(1))
    /\ SF_vars(RetireLock(1))
    /\ WF_vars(ReclaimRuns)

\* two reader threads, two writer threads calling update, one thread calling
\* reclaim(); no allocation fails
NextReclaimWriters ==
    \/ \E r \in RoReaders :
          \/ GetReader(r)
          \/ DestroyReader(r)
          \/ ReadPtrLoadEpoch(r)
          \/ ReadPtrStoreEpoch(r)
          \/ ReadPtrAssert(r)
          \/ ReadPtrLoadValue(r)
          \/ ReadPtrClose(r)
    \/ \E w \in RoWriters :
          \/ \E t \in UpdateArgs : UpdateCall(w, t)
          \/ Exchange(w)
          \/ RetireLock(w)
          \/ Retire(w)
    \/ ReclaimLock
    \/ ReclaimLoop
    \/ ReclaimScan
    \/ ReclaimReset
    \/ ReclaimErase
    \/ Destructor

SpecReclaimWriters == InitSpecReclaim /\ [][NextReclaimWriters]_vars

\* one reader thread, one writer thread using update and write_ptr, one thread
\* calling reclaim(); no allocation fails
NextReclaimWritePtr ==
    \/ \E r \in {1} :
          \/ GetReader(r)
          \/ DestroyReader(r)
          \/ ReadPtrLoadEpoch(r)
          \/ ReadPtrStoreEpoch(r)
          \/ ReadPtrAssert(r)
          \/ ReadPtrLoadValue(r)
          \/ ReadPtrClose(r)
    \/ \E w \in {1} :
          \/ \E t \in UpdateArgs : UpdateCall(w, t)
          \/ WritePtrLoad(w)
          \/ WritePtrCopy(w)
          \/ WritePtrModify(w)
          \/ Exchange(w)
          \/ RetireLock(w)
          \/ Retire(w)
    \/ ReclaimLock
    \/ ReclaimLoop
    \/ ReclaimScan
    \/ ReclaimReset
    \/ ReclaimErase

SpecReclaimWritePtr == InitSpecReclaim /\ [][NextReclaimWritePtr]_vars

\* no reader; a writer thread that modifies the value through write_ptr, a writer
\* thread that calls update, one thread calling reclaim()
NextReclaimTwoWriters ==
    \/ \E w \in {1} :
          \/ WritePtrLoad(w)
          \/ WritePtrCopy(w)
          \/ WritePtrModify(w)
    \/ \E w \in {2} : \E t \in UpdateArgs : UpdateCall(w, t)
    \/ \E w \in RoWriters :
          \/ Exchange(w)
          \/ RetireLock(w)
          \/ Retire(w)
    \/ ReclaimLock
    \/ ReclaimLoop
    \/ ReclaimScan
    \/ ReclaimReset
    \/ ReclaimErase

SpecReclaimTwoWriters == InitSpecReclaim /\ [][NextReclaimTwoWriters]_vars

\* the same threads, with allocations of the new value that may fail
\* (std::make_unique in update and in write_ptr's constructor)
NextReclaimValueAllocFails ==
    \/ NextReclaimWritePtr
    \/ \E w \in {1} :
          \/ UpdateAllocFails(w)
          \/ WritePtrAllocFails(w)
          \/ CatchBadAlloc(w)

SpecReclaimValueAllocFails == InitSpecReclaim /\ [][NextReclaimValueAllocFails]_vars

\* the same threads, with every allocation one that may fail: also that of the
\* zombie list's storage (zombies.push_back in exchange_and_retire)
NextReclaimAllocFails ==
    \/ NextReclaimValueAllocFails
    \/ \E w \in {1} :
          \/ RetireAllocFails(w)
          \/ RetireAllocFailsTerminates(w)
          \/ Terminate(w)

SpecReclaimAllocFails == InitSpecReclaim /\ [][NextReclaimAllocFails]_vars

InitSpecROW ==
    /\ InitROW /\ assertions \in BOOLEAN /\ InitMutex /\ RestSeqlock /\ InitReclaim
    /\ InitAup
    /\ RestBackoff

\* two reader threads, one writer thread
NextROW ==
    \/ \E r \in RwReaders :
          \/ RwGetReader(r)
          \/ RwDestroyReader(r)
          \/ RwReadPtrLoadEpoch(r)
          \/ RwReadPtrStoreEpoch(r)
          \/ RwReadPtrAssert(r)
          \/ RwReadPtrLoadSlot(r)
          \/ RwReadPtrClose(r)
    \/ \E w \in {1} :
          \/ RwUpdateCall(w)
          \/ RwUpdateWrite(w)
          \/ RwWritePtrCall(w)
          \/ RwWritePtrCopy(w)
          \/ RwWritePtrModify(w)
          \/ RwStoreSlot(w)
          \/ RwFetchAdd(w)
          \/ RwWaitLock(w)
          \/ RwWaitScan(w)

SpecROW == InitSpecROW /\ [][NextROW]_vars

\* Scheduling: every thread that can take a step of a read_ptr constructor or
\* destructor, or of a publish (swap_slot_and_wait_for_readers, whose loop yields),
\* eventually takes it; nothing obliges a thread to begin a new operation.
RwReadPtrRuns(r) ==
    \/ RwReadPtrStoreEpoch(r)
    \/ RwReadPtrAssert(r)
    \/ RwReadPtrLoadSlot(r)
    \/ RwReadPtrClose(r)

RwPublishRuns(w) ==
    \/ RwUpdateWrite(w)
    \/ RwStoreSlot(w)
    \/ RwFetchAdd(w)
    \/ RwWaitLock(w)
    \/ RwWaitScan(w)

FairSpecROW ==
    /\ InitSpecROW
    /\ [][NextROW]_vars
    /\ \A r \in RwReaders : WF_vars(RwReadPtrRuns(r))
    /\ WF_vars(RwPublishRuns(1))

\* one reader thread, two writer threads (both call update, the first also uses
\* write_ptr)
NextROWWriters ==
    \/ \E r \in {1} :
          \/ RwGetReader(r)
          \/ RwDestroyReader(r)
          \/ RwReadPtrLoadEpoch(r)
          \/ RwReadPtrStoreEpoch(r)
          \/ RwReadPtrAssert(r)
          \/ RwReadPtrLoadSlot(r)
          \/ RwReadPtrClose(r)
    \/ \E w \in RwWriters :
          \/ RwUpdateCall(w)
          \/ RwUpdateWrite(w)
          \/ RwStoreSlot(w)
          \/ RwFetchAdd(w)
          \/ RwWaitLock(w)
          \/ RwWaitScan(w)
    \/ \E w \in {1} :
          \/ RwWritePtrCall(w)
          \/ RwWritePtrCopy(w)
          \/ RwWritePtrModify(w)

SpecROWWriters == InitSpecROW /\ [][NextROWWriters]_vars

\* a reclaim_object and a reclaim_on_write_object side by side, each with one reader
\* thread and one writer thread that modifies the value through write_ptr; no
\* thread calls reclaim()
NextBothObjects ==
    \/ \E r \in {1} :
          \/ GetReader(r)
          \/ DestroyReader(r)
          \/ ReadPtrLoadEpoch(r)
          \/ ReadPtrStoreEpoch(r)
          \/ ReadPtrAssert(r)
          \/ ReadPtrLoadValue(r)
          \/ ReadPtrClose(r)
    \/ \E w \in {1} :
          \/ WritePtrLoad(w)
          \/ WritePtrCopy(w)
          \/ WritePtrModify(w)
          \/ Exchange(w)
          \/ RetireLock(w)
          \/ Retire(w)
    \/ \E r \in {1} :
          \/ RwGetReader(r)
          \/ RwDestroyReader(r)
          \/ RwReadPtrLoadEpoch(r)
          \/ RwReadPtrStoreEpoch(r)
          \/ RwReadPtrAssert(r)
          \/ RwReadPtrLoadSlot(r)
          \/ RwReadPtrClose(r)
    \/ \E w \in {1} :
          \/ RwWritePtrCall(w)
          \/ RwWritePtrCopy(w)
          \/ RwWritePtrModify(w)
          \/ RwStoreSlot(w)
          \/ RwFetchAdd(w)
          \/ RwWaitLock(w)
          \/ RwWaitScan(w)

SpecBothObjects == InitSpecReclaim /\ [][NextBothObjects]_vars

\* One thread that is reader 1 and writer 1 of a reclaim_object, and one thread
\* that is reader 1 and writer 1 of a reclaim_on_write_object: a thread calls update
\* or write_lock only between its reader's calls (possibly with its read_ptr open),
\* and goes on with its reader only after the update or the write_ptr's destructor
\* has returned.
RoThreadNotWriting == ro_wr[1].pc = "idle"
RoThreadNotReading == ro_rd[1].pc \in {"none", "idle", "open"}
RwThreadNotWriting == rw_wr[1].pc \in {"idle", "write_ptr"}
RwThreadNotReading == rw_rd[1].pc \in {"none", "idle", "open"}

NextSameThread ==
    \/ RoThreadNotWriting /\ GetReader(1)
    \/ RoThreadNotWriting /\ DestroyReader(1)
    \/ RoThreadNotWriting /\ ReadPtrLoadEpoch(1)
    \/ ReadPtrStoreEpoch(1)
    \/ ReadPtrAssert(1)
    \/ ReadPtrLoadValue(1)
    \/ RoThreadNotWriting /\ ReadPtrClose(1)
    \/ RoThreadNotReading /\ \E t \in UpdateArgs : UpdateCall(1, t)
    \/ Exchange(1)
    \/ RetireLock(1)
    \/ Retire(1)
    \/ RwThreadNotWriting /\ RwGetReader(1)
    \/ RwThreadNotWriting /\ RwDestroyReader(1)
    \/ RwThreadNotWriting /\ RwReadPtrLoadEpoch(1)
    \/ RwReadPtrStoreEpoch(1)
    \/ RwReadPtrAssert(1)
    \/ RwReadPtrLoadSlot(1)
    \/ RwThreadNotWriting /\ RwReadPtrClose(1)
    \/ RwThreadNotReading /\ RwUpdateCall(1)
    \/ RwUpdateWrite(1)
    \/ RwThreadNotReading /\ RwWritePtrCall(1)
    \/ RwWritePtrCopy(1)
    \/ RwThreadNotReading /\ RwWritePtrModify(1)
    \/ RwThreadNotReading /\ RwStoreSlot(1)
    \/ RwFetchAdd(1)
    \/ RwWaitLock(1)
    \/ RwWaitScan(1)

SpecSameThread == InitSpecReclaim /\ [][NextSameThread]_vars

\* Scheduling: a thread inside update() or inside a write_ptr's destructor keeps
\* running
FairSpecSameThread ==
    /\ InitSpecReclaim
    /\ [][NextSameThread]_vars
    /\ WF_vars(RoPublishRuns(1) \/ RetireLock(1))
    /\ WF_vars(RwPublishRuns(1))

\* a reclaim_object and a reclaim_on_write_object side by side, each with two threads
\* that create a reader, read through it and destroy it, over and over; no writer
\* (the tests "readers can be created and destroyed concurrently")
NextReaders ==
    \/ \E r \in RoReaders :
          \/ GetReader(r)
          \/ DestroyReader(r)
          \/ ReadPtrLoadEpoch(r)
          \/ ReadPtrStoreEpoch(r)
          \/ ReadPtrAssert(r)
          \/ ReadPtrLoadValue(r)
          \/ ReadPtrClose(r)
    \/ \E r \in RwReaders :
          \/ RwGetReader(r)
          \/ RwDestroyReader(r)
          \/ RwReadPtrLoadEpoch(r)
          \/ RwReadPtrStoreEpoch(r)
          \/ RwReadPtrAssert(r)
          \/ RwReadPtrLoadSlot(r)
          \/ RwReadPtrClose(r)

SpecReaders == InitSpecReclaim /\ [][NextReaders]_vars

\* the step of reclaim() that decides about zombie k: it is kept or reset
ReclaimDecides == ro_gc.pc = "scan" /\ ro_gc'.pc \in {"loop", "reset"}
\* the step by which reclaim() returns
ReclaimReturns == ro_gc.pc = "erase" /\ ro_gc'.pc = "idle"
RoOpen(r) == ro_rd[r].pc = "open"

(***************************************************************************)
(* C1  spin_mutex: try_lock never returns true to two callers without an   *)
(* intervening unlock, lock() returns only through a try_lock of its own   *)
(* that found the flag clear, and so at most one thread holds the lock.    *)
(***************************************************************************)
Holders == {t \in Threads : m_pc[t] = "held"}

C1_MutualExclusion ==
    /\ [](Cardinality(Holders) <= 1 /\ (Holders # {} => flag))
    /\ [][\A t \in Threads :
            (m_pc[t] # "held" /\ m_pc'[t] = "held")
                => /\ ~flag /\ flag'
                   /\ Holders = {}
                   /\ m_ret'[t]
                   /\ m_pc[t] \in {"idle", "stage1", "stage2", "stage3"}]_vars

\* a thread came to hold the lock through lock()'s third stage while another spins
C1_Witness ==
    \E t, u \in Threads :
        /\ t # u
        /\ m_pc[t] = "held"
        /\ m_pc[u] = "stage3" /\ m_i[u] > 0
        /\ m_ret[t] /\ ~m_ret[u]

(***************************************************************************)
(* C2  seqlock_object: every try_load that returns true yields a value     *)
(* that was given to the constructor or to some store, in full.            *)
(***************************************************************************)
C2_NoTornRead ==
    \A r \in SeqReaders : sq_r[r].ret = "true" => sq_r[r].t \in sq_stored

\* a try_load succeeded with the second stored value while an earlier one failed or
\* a store was in flight at some point: a reader holds a stored (not initial) value
C2_Witness ==
    \E r \in SeqReaders :
        /\ sq_r[r].ret = "true"
        /\ sq_r[r].kind = "try_load"
        /\ sq_r[r].t \in Values
        /\ sq_w.stores = MaxStores
        /\ sq_w.pc = "data" /\ sq_w.i = 1

(***************************************************************************)
(* C3  reclaim_object: while a read_ptr is open it refers to the same T,   *)
(* alive and with unchanged contents, whatever updates, write_ptr          *)
(* publishes and reclaim() calls run meanwhile, also those in which an     *)
(* allocation fails.                                                       *)
(***************************************************************************)
C3_ReaderIsolation ==
    /\ [](\A r \in RoReaders : RoOpen(r) => ro_rd[r].value_read \in alive)
    /\ [][\A r \in RoReaders :
            (RoOpen(r) /\ ro_rd'[r].pc = "open")
                => /\ ro_rd'[r].value_read = ro_rd[r].value_read
                   /\ deref(r)' = deref(r)]_vars

(***************************************************************************)
(* C4  reclaim_object: reclaim() never destroys a T that an open read_ptr  *)
(* refers to, with concurrent readers, writers and reclaim().              *)
(***************************************************************************)
C4_NoPrematureReclamation ==
    \A r \in RoReaders : RoOpen(r) => ro_rd[r].value_read \in alive

\* reclaim() has destroyed an older zombie while a read_ptr refers to a newer one
C4_Witness ==
    \E r \in RoReaders :
        /\ RoOpen(r)
        /\ ro_rd[r].value_read # value
        /\ \E k \in 1..Len(zombies) : zombies[k].value = ro_rd[r].value_read
        /\ \E a \in 1..Len(heap) : a \notin alive

\* the step of a waiting publish that finds a reader using the retired epoch
RwWaitHit(w) == rw_wr[w].pc = "scan" /\ rw_wr'[w].pc = "wait"
\* the reader examined by that step
RwExamined(w) == rw_readers[rw_wr[w].j]
\* writer w is in the middle of assigning its slot (some member written, some not)
RwMidWrite(w) == rw_wr[w].pc \in {"write", "copy"} /\ rw_wr[w].i > 1
\* no step writes a slot an open read_ptr refers to
RwOpenSlotsKept ==
    \A r \in RwReaders :
        RwOpen(r) => rw_slots'[rw_rd[r].read_slot] = rw_slots[rw_rd[r].read_slot]

(***************************************************************************)
(* C5  reclaim_on_write_object, one writer thread: no step (of update, of  *)
(* write_ptr's constructor, of a write through write_ptr) writes the slot  *)
(* an open read_ptr refers to; the read_ptr sees the same complete value   *)
(* for its whole scope. The single wait after the slot flip suffices.      *)
(***************************************************************************)
C5_SingleWaitSuffices == [][RwOpenSlotsKept]_vars

\* a read_ptr whose constructor loaded the epoch before one publish and the slot
\* after it is still open, on the slot now retired, while the next publish waits
C5_Witness ==
    \E r \in RwReaders :
        /\ RwOpen(r)
        /\ rw_rd[r].epoch + 2 <= rw_current_epoch
        /\ rw_rd[r].read_slot # rw_current_read_slot
        /\ rw_deref(r) # rw_slots[rw_current_read_slot]
        /\ rw_wr[1].pc \in {"wait", "scan"}

(***************************************************************************)
(* C6  reclaim_on_write_object, as claimed: under fair scheduling a        *)
(* publish that has flipped the slot eventually returns, also when readers *)
(* keep opening new read_ptrs (each read_ptr being closed eventually).     *)
(***************************************************************************)
C6_WriterProgress ==
    (rw_wr[1].pc \in {"wait", "scan"}) ~> (rw_wr[1].pc = "idle")

(***************************************************************************)
(* C7  reclaim_on_write_object, as claimed: a reader found by              *)
(* has_readers_using_epoch(retired_epoch) never has an open read_ptr that  *)
(* refers to the newly current slot, the one the waiting writer published. *)
(***************************************************************************)
C7_OnlyOldSlotReadersBlock ==
    [][\A w \in RwWriters :
          RwWaitHit(w) =>
              ~(RwOpen(RwExamined(w))
                /\ rw_rd[RwExamined(w)].read_slot = rw_wr[w].write_slot)]_vars

(***************************************************************************)
(* C8  reclaim_on_write_object with two writer threads, as claimed: no two *)
(* writers are in the middle of writing the same slot, no writer writes a  *)
(* slot another writer is still waiting for readers of, and no step writes *)
(* a slot an open read_ptr refers to.                                      *)
(***************************************************************************)
C8_WritersSerialized ==
    /\ [](\A w1, w2 \in RwWriters :
            (w1 # w2 /\ RwMidWrite(w1))
                => /\ ~(RwMidWrite(w2) /\ rw_wr[w2].write_slot = rw_wr[w1].write_slot)
                   /\ ~(rw_wr[w2].pc \in {"wait", "scan"}
                        /\ rw_wr[w2].write_slot # rw_wr[w1].write_slot))
    /\ [][RwOpenSlotsKept]_vars

(***************************************************************************)
(* C9  reclaim_object: a reclaim() during which no read_ptr is open and no *)
(* update is under way destroys every retired value: when it returns the   *)
(* zombie list is empty and only the current value is alive.               *)
(***************************************************************************)
C9_QuietReclaimDestroysAll ==
    [][(ReclaimReturns /\ ro_gc.quiet /\ RoQuiet)
            => (zombies' = << >> /\ alive' = {value'})]_vars

\* such a reclaim() is about to return, with a reader registered, having reset two zombies
C9_Witness ==
    /\ ro_gc.pc = "erase" /\ ro_gc.quiet /\ RoQuiet
    /\ Len(readers) >= 1
    /\ Len(zombies) = 2
    /\ \A k \in 1..Len(zombies) : zombies[k].value = nullptr

(***************************************************************************)
(* C10 reclaim_object, as claimed: after reclaim() returns the zombie list *)
(* holds no value other than those a read_ptr open during the call         *)
(* referred to.                                                            *)
(***************************************************************************)
C10_Original ==
    [][ReclaimReturns
            => \A k \in 1..Len(zombies') : zombies'[k].value \in ro_gc.referred]_vars

(***************************************************************************)
(* C10 reclaim_object, amended: reclaim() keeps a zombie only if, when it  *)
(* examines it, some registered reader with a read_ptr open or being       *)
(* opened has a non-zero min_epoch <= the zombie's retirement epoch (the   *)
(* read_ptr need not refer to that zombie); every other zombie is          *)
(* destroyed and is off the list when reclaim() returns.                   *)
(***************************************************************************)
RoRegistered == {readers[j] : j \in 1..Len(readers)}

C10_KeepsOnlyEpochsInUse ==
    /\ [][ReclaimDecides =>
            LET z == zombies'[ro_gc.k] IN
            \/ ro_gc'.pc = "reset"
            \/ /\ z = zombies[ro_gc.k]
               /\ \E r \in RoRegistered :
                    /\ ro_rd[r].pc \in {"assert", "load", "open"}
                    /\ min_epoch[r] # 0
                    /\ min_epoch[r] <= z.epoch_when_retired]_vars
    /\ [][(ro_gc.pc = "reset" /\ ro_gc'.pc = "loop") =>
            /\ zombies'[ro_gc.k].value = nullptr
            /\ zombies[ro_gc.k].value \notin alive']_vars
    /\ [][ReclaimReturns =>
            /\ \A k \in 1..Len(zombies') : zombies'[k].value \in alive'
            /\ zombies' = erase_null(zombies)]_vars

\* reclaim() is about to return having kept a zombie no read_ptr referred to
\* and having destroyed another
C10_Witness ==
    /\ ro_gc.pc = "erase"
    /\ \E k \in 1..Len(zombies) :
          zombies[k].value # nullptr /\ zombies[k].value \notin ro_gc.referred
    /\ \E k \in 1..Len(zombies) : zombies[k].value = nullptr

\* writer w's step that enters exchange_and_retire's critical section and its step
\* that appends and returns
RoPublishes(w) == ro_wr[w].pc \in {"exchange", "write_ptr"} /\ ro_wr'[w].pc = "lock"
RoRetires(w) == ro_wr[w].pc = "retire" /\ ro_wr'[w].pc = "idle"

(***************************************************************************)
(* C11 reclaim_object: no step outside reclaim() destroys a value or       *)
(* shortens the zombie list, whether or not an allocation fails; the       *)
(* pointer exchange of update() or of write_ptr's destructor takes over    *)
(* the displaced value, and its push_back lengthens the zombie list by     *)
(* exactly that one value.                                                 *)
(***************************************************************************)
C11_NoImplicitReclamation ==
    [][/\ (alive' # alive /\ ~(alive \subseteq alive')) => ro_gc.pc = "reset"
       /\ Len(zombies') < Len(zombies) => ReclaimReturns
       /\ \A w \in RoWriters :
            /\ RoPublishes(w) =>
                  /\ ro_wr'[w].old_value = value
                  /\ alive' = alive /\ zombies' = zombies
            /\ RoRetires(w) =>
                  /\ Len(zombies') = Len(zombies) + 1
                  /\ SubSeq(zombies', 1, Len(zombies)) = zombies
                  /\ zombies'[Len(zombies')].value = ro_wr[w].old_value
                  /\ alive' = alive]_vars

\* where the T at address a is
RoIsCurrent(a) == value = a
RoIsHeld(a) == \E w \in RoWriters : ro_wr[w].pc \in {"lock", "retire"} /\ ro_wr[w].old_value = a
RoIsZombie(a) == \E k \in 1..Len(zombies) : zombies[k].value = a
RoIsDestroyed(a) == a \notin alive
\* made by make_unique and not yet handed to the exchange
RoIsUnpublished(a) ==
    \E w \in RoWriters : ro_wr[w].pc \in {"exchange", "write_ptr"} /\ ro_wr[w].new_value = a
\* ~reclaim_object has run
RoTornDown == ro_gc.pc = "destroyed"
RoPlaces(a) ==
    {p \in {"current", "held", "zombie", "destroyed"} :
        \/ p = "current" /\ RoIsCurrent(a)
        \/ p = "held" /\ RoIsHeld(a)
        \/ p = "zombie" /\ RoIsZombie(a)
        \/ p = "destroyed" /\ RoIsDestroyed(a)}

(***************************************************************************)
(* C12 reclaim_object: every value that was installed is in exactly one    *)
(* place: current, held by a writer between its exchange and its          *)
(* push_back, on the zombie list (once), or destroyed; a value is          *)
(* destroyed only by a reclaim() step, while it is alive, on the zombie    *)
(* list and not current, or by the object's destructor, which destroys the *)
(* current value and the zombies and leaves nothing alive; so it is        *)
(* destroyed once, and by no step of update() or of a write_ptr, whether   *)
(* or not an allocation fails.                                             *)
(***************************************************************************)
C12_ExactlyOnePlace ==
    /\ [](\A a \in 1..Len(heap) :
            IF RoIsUnpublished(a) THEN RoPlaces(a) = {}
            ELSE Cardinality(RoPlaces(a)) = 1)
    /\ [](\A k1, k2 \in 1..Len(zombies) :
            (k1 # k2 /\ zombies[k1].value # nullptr)
                => zombies[k1].value # zombies[k2].value)
    /\ [][\A a \in 1..Len(heap) :
            (a \in alive /\ a \notin alive')
                => \/ /\ ro_gc.pc = "reset"
                      /\ zombies[ro_gc.k].value = a
                      /\ zombies'[ro_gc.k].value = nullptr
                      /\ ~RoIsCurrent(a) /\ ~RoIsHeld(a)
                   \/ /\ RoTornDown'
                      /\ RoIsCurrent(a) \/ RoIsZombie(a)
                      /\ alive' = {}]_vars

(***************************************************************************)
(* C13 reclaim_object: an update() that has begun returns, whatever the    *)
(* readers do, also when a read_ptr opened before it is never closed: its  *)
(* only wait is for zombies_mtx.                                           *)
(***************************************************************************)
C13_UpdateNeverWaitsForReaders ==
    (ro_wr[1].pc # "idle") ~> (ro_wr[1].pc = "idle")

\* two updates have returned while a read_ptr opened before them is still open
C13_Witness ==
    \E r \in RoReaders :
        /\ RoOpen(r)
        /\ ro_rd[r].value_read = 1
        /\ value = 3
        /\ ro_wr[1].pc = "idle"

\* how far reader r is through read_lock(): the statements of read_ptr's constructor
\* in order
RoReadLockRank(pc) ==
    CASE pc = "idle" -> 0 [] pc = "store" -> 1 [] pc = "assert" -> 2
      [] pc = "load" -> 3 [] pc = "open" -> 4 [] OTHER -> 5

(***************************************************************************)
(* C14 reclaim_object: every step of read_ptr's constructor and destructor *)
(* and the pointer exchange of a publish can be taken whoever holds        *)
(* zombies_mtx or readers_mtx, and leaves both mutexes alone; the          *)
(* constructor only moves forward, so read_lock() ends after at most four  *)
(* steps of its own.                                                       *)
(***************************************************************************)
C14_ReadAndPublishLockFree ==
    /\ [](\A r \in RoReaders :
            /\ ro_rd[r].pc = "idle" => ENABLED ReadPtrLoadEpoch(r)
            /\ ro_rd[r].pc = "store" => ENABLED ReadPtrStoreEpoch(r)
            /\ ro_rd[r].pc = "assert" => ENABLED ReadPtrAssert(r)
            /\ ro_rd[r].pc = "load" => ENABLED ReadPtrLoadValue(r)
            /\ ro_rd[r].pc = "open" => ENABLED ReadPtrClose(r))
    /\ [](\A w \in RoWriters : ro_wr[w].pc = "exchange" => ENABLED Exchange(w))
    /\ [][\A r \in RoReaders :
            (ro_rd'[r] # ro_rd[r] /\ ro_rd[r].pc # "none" /\ ro_rd'[r].pc # "none")
                => /\ UNCHANGED <<zombies_mtx, readers_mtx>>
                   /\ \/ ro_rd[r].pc = "open" /\ ro_rd'[r].pc = "idle"
                      \/ RoReadLockRank(ro_rd[r].pc) < RoReadLockRank(ro_rd'[r].pc)]_vars
    /\ [][\A w \in RoWriters :
            RoPublishes(w) => UNCHANGED <<zombies_mtx, readers_mtx>>]_vars

\* reclaim() holds both mutexes while a reader is inside read_ptr's constructor
\* and a writer is about to exchange the pointer
C14_Witness ==
    /\ zombies_mtx = "reclaim" /\ readers_mtx = "reclaim"
    /\ \E r \in RoReaders : ro_rd[r].pc = "load"
    /\ ro_wr[1].pc = "exchange"

\* writer w is between its slot flip and the end of its wait
RwPublishing(w) == rw_wr[w].pc \in {"fetch_add", "wait", "scan"}
\* the step by which writer w's wait ends and update() / ~write_ptr returns
RwWaitReturns(w) == rw_wr[w].pc = "scan" /\ rw_wr'[w].pc = "idle"
\* the step by which writer w's check passes over a reader
RwWaitPasses(w) == rw_wr[w].pc = "scan" /\ rw_wr'[w].pc = "scan" /\ rw_wr'[w].j = rw_wr[w].j + 1

(***************************************************************************)
(* C15 reclaim_on_write_object, one writer: a publish returns only when    *)
(* its check has passed over every registered reader, each having had      *)
(* min_epoch 0 or above the retired epoch when examined; whenever the      *)
(* writer is not between flip and return, every open read_ptr is on the    *)
(* current slot; when update(v) returns the current slot holds v, it keeps *)
(* it while the writer is idle, and a read_ptr opened then is on that      *)
(* slot.                                                                   *)
(***************************************************************************)
C15_UpdateBlocksUntilReadersLeft ==
    /\ [][/\ RwWaitPasses(1) =>
                LET e == rw_min_epoch[RwExamined(1)] IN
                e = 0 \/ e > rw_wr[1].retired_epoch
          /\ RwWaitReturns(1) =>
                /\ rw_wr[1].j = Len(rw_readers) + 1
                /\ rw_wr[1].arg # 0 => rw_slots'[rw_current_read_slot'] = RwT(rw_wr[1].arg)
          /\ (rw_wr[1].pc = "idle" /\ rw_wr'[1].pc = "idle") =>
                rw_slots'[rw_current_read_slot'] = rw_slots[rw_current_read_slot]
          /\ \A r \in RwReaders :
                (rw_rd[r].pc = "load" /\ rw_rd'[r].pc = "open")
                    => rw_rd'[r].read_slot = rw_current_read_slot]_vars
    /\ [](~RwPublishing(1) =>
            \A r \in RwReaders : RwOpen(r) => rw_rd[r].read_slot = rw_current_read_slot)

\* update(1) has returned without waiting for a reader that had loaded the epoch but
\* not yet stored it; that reader's read_ptr is now open and reads 1
C15_Witness ==
    \E r \in RwReaders :
        /\ rw_wr[1].pc = "idle"
        /\ rw_updates = 1
        /\ RwOpen(r)
        /\ rw_rd[r].epoch < rw_current_epoch
        /\ rw_deref(r) = RwT(1)

\* writer w of the reclaim_object holds a write_ptr
RoWritePtrAlive(w) == ro_wr[w].pc = "write_ptr"
\* the step by which that write_ptr goes out of scope and publishes its copy
RoWritePtrReleases(w) == ro_wr[w].pc = "write_ptr" /\ ro_wr'[w].pc = "lock"
\* what the write_ptr of writer w will publish, given the value it was copied from
RoWritten(w, t) == IF ro_wr[w].modified THEN modify(t) ELSE t
\* writer w of the reclaim_on_write_object holds a (fully constructed) write_ptr
RwWritePtrAlive(w) == rw_wr[w].pc = "write_ptr"
\* the step by which that write_ptr goes out of scope and flips the slots
RwWritePtrReleases(w) == rw_wr[w].pc = "write_ptr" /\ rw_wr'[w].pc = "fetch_add"
\* what the write_ptr of writer w will publish, given the T it was copied from
RwWritten(w, t) == IF rw_wr[w].modified THEN [t EXCEPT ![2] = modify(@)] ELSE t

(***************************************************************************)
(* C16 both objects, one writer each: while a write_ptr is alive the       *)
(* published value stays what it was, no open read_ptr refers to the copy  *)
(* being modified, a read_ptr that stays open keeps its value and one that *)
(* is opened gets the published (previous) value; the step that releases   *)
(* the write_ptr makes the whole modified copy the published value.        *)
(***************************************************************************)
C16_WritePtrPublishesOnRelease ==
    /\ [](RoWritePtrAlive(1) =>
            /\ value = ro_wr[1].loaded
            /\ heap[ro_wr[1].new_value] = RoWritten(1, heap[value])
            /\ \A r \in RoReaders : RoOpen(r) => ro_rd[r].value_read # ro_wr[1].new_value)
    /\ [][(RoWritePtrAlive(1) /\ RoWritePtrAlive(1)') =>
            /\ value' = value
            /\ heap'[value'] = heap[value]
            /\ \A r \in RoReaders :
                  /\ (RoOpen(r) /\ RoOpen(r)') => deref(r)' = deref(r)
                  /\ (~RoOpen(r) /\ RoOpen(r)') => deref(r)' = {heap[value]}]_vars
    /\ [][RoWritePtrReleases(1) =>
            /\ value' = ro_wr[1].new_value
            /\ heap'[value'] = RoWritten(1, heap[value])]_vars
    /\ [](RwWritePtrAlive(1) =>
            /\ rw_wr[1].write_slot # rw_current_read_slot
            /\ rw_slots[rw_wr[1].write_slot] = RwWritten(1, rw_slots[rw_current_read_slot])
            /\ \A r \in RwReaders : RwOpen(r) => rw_rd[r].read_slot = rw_current_read_slot)
    /\ [][(RwWritePtrAlive(1) /\ RwWritePtrAlive(1)') =>
            /\ rw_current_read_slot' = rw_current_read_slot
            /\ rw_slots'[rw_current_read_slot] = rw_slots[rw_current_read_slot]
            /\ \A r \in RwReaders :
                  RwOpen(r)' => rw_deref(r)' = rw_slots[rw_current_read_slot]]_vars
    /\ [][RwWritePtrReleases(1) =>
            rw_slots'[rw_current_read_slot'] =
                RwWritten(1, rw_slots[rw_current_read_slot])]_vars

\* both writers hold a write_ptr through which they have modified their copy, and on
\* both objects a read_ptr is open and still yields the value published before
C16_Witness ==
    /\ RoWritePtrAlive(1) /\ ro_wr[1].modified
    /\ RwWritePtrAlive(1) /\ rw_wr[1].modified
    /\ \E r \in RoReaders : RoOpen(r) /\ deref(r) = {heap[value]}
                                      /\ deref(r) # {heap[ro_wr[1].new_value]}
    /\ \E r \in RwReaders : RwOpen(r) /\ rw_deref(r) = rw_slots[rw_current_read_slot]
                                      /\ rw_deref(r) # rw_slots[rw_wr[1].write_slot]

\* the step of read_ptr's constructor that loads the value pointer
RoReadPtrOpens(r) == ro_rd[r].pc = "load" /\ ro_rd'[r].pc = "open"
\* no writer is inside update() or holds a write_ptr
RoWritersFinished == \A w \in RoWriters : ro_wr[w].pc = "idle"

(***************************************************************************)
(* C17 reclaim_object, concurrent update() calls: the pointer exchange of  *)
(* an update installs the T that update constructed, nothing but a pointer *)
(* exchange changes the installed pointer or the T it points to, and a     *)
(* read_ptr being opened takes the pointer installed at that moment, so it *)
(* reads the value of the exchange that was last; once all writers have    *)
(* finished, that value is live and not among the zombies (all this until  *)
(* the object itself is destroyed).                                        *)
(***************************************************************************)
C17_ReadsLastExchangedValue ==
    /\ [][/\ \A w \in RoWriters :
                RoPublishes(w) => /\ value' = ro_wr[w].new_value
                                  /\ heap'[value'] = heap[ro_wr[w].new_value]
          /\ value' # value => (RoTornDown' \/ \E w \in RoWriters : RoPublishes(w))
          /\ ~RoTornDown => heap'[value] = heap[value]
          /\ \A r \in RoReaders :
                RoReadPtrOpens(r) => /\ ro_rd'[r].value_read = value
                                     /\ deref(r)' = {heap[value]}]_vars
    /\ [](~RoTornDown => value \in alive)
    /\ [](RoWritersFinished => \A k \in 1..Len(zombies) : zombies[k].value # value)

\* two updates have completed; the one that allocated first exchanged last, and the
\* read_ptr opened afterwards reads its value
C17_Witness ==
    \E r \in RoReaders :
        /\ RoWritersFinished
        /\ Len(heap) = 3
        /\ value = 2
        /\ RoOpen(r) /\ ro_rd[r].value_read = 2 /\ deref(r) = {heap[2]}
        /\ min_epoch[r] >= 3

\* the step of write_ptr's constructor that precedes its allocation
RoWritePtrBegins(w) == ro_wr[w].pc = "idle" /\ ro_wr'[w].pc = "copy"
\* the step at which the allocation of writer w fails
RoAllocFails(w) == ro_wr[w].pc \in {"idle", "copy"} /\ ro_wr'[w].pc = "bad_alloc"

(***************************************************************************)
(* C18 reclaim_object: the step at which the allocation of update() or of  *)
(* write_ptr's constructor fails, and the constructor's step before it,    *)
(* leave the value pointer, the epoch counter, the zombie list and every   *)
(* stored T as they were, every open read_ptr stays open on the value it   *)
(* had, and the writer holds no new value afterwards; the installed value  *)
(* stays live.                                                             *)
(***************************************************************************)
C18_AllocFailureLeavesObjectUnchanged ==
    /\ [][\A w \in RoWriters :
            (RoAllocFails(w) \/ RoWritePtrBegins(w)) =>
                /\ UNCHANGED <<value, current_epoch, zombies, heap, alive, min_epoch>>
                /\ \A r \in RoReaders :
                      RoOpen(r) => RoOpen(r)' /\ deref(r)' = deref(r)]_vars
    /\ [](\A w \in RoWriters :
            ro_wr[w].pc = "bad_alloc" => ro_wr[w].new_value = nullptr /\ value \in alive)

\* an allocation of the writer has failed after an earlier update was published and
\* retired, while a read_ptr is open on the installed value
C18_Witness ==
    \E r \in RoReaders :
        /\ ro_wr[1].pc = "bad_alloc"
        /\ Len(zombies) >= 1
        /\ value # 1
        /\ RoOpen(r) /\ ro_rd[r].value_read = value

\* reader r is past the store of a read_ptr's constructor and before the store of its
\* destructor: the read_ptr is being handed out or is open
RoInReadPtr(r) == ro_rd[r].pc \in {"assert", "load", "open"}
RwInReadPtr(r) == rw_rd[r].pc \in {"assert", "load", "open"}
\* the first step of a read_ptr's constructor
RoReadPtrBegins(r) == ro_rd[r].pc = "idle" /\ ro_rd'[r].pc = "store"
RwReadPtrBegins(r) == rw_rd[r].pc = "idle" /\ rw_rd'[r].pc = "store"

(***************************************************************************)
(* C19 both objects: a reader's min_epoch is non-zero while its read_ptr   *)
(* is open, and is 0 whenever the reader has no read_ptr (it is unset, or  *)
(* idle, or its constructor has not yet stored the epoch); every read_ptr  *)
(* constructor begins with min_epoch = 0, also after an earlier read_ptr   *)
(* of the same reader was destroyed.                                       *)
(***************************************************************************)
C19_MinEpochNonZeroIffReadPtr ==
    /\ [](\A r \in RoReaders :
            /\ RoOpen(r) => min_epoch[r] # 0
            /\ min_epoch[r] # 0 <=> RoInReadPtr(r))
    /\ [](\A r \in RwReaders :
            /\ RwOpen(r) => rw_min_epoch[r] # 0
            /\ rw_min_epoch[r] # 0 <=> RwInReadPtr(r))
    /\ [][/\ \A r \in RoReaders :
                /\ RoReadPtrBegins(r) => min_epoch[r] = 0
                /\ (RoOpen(r) /\ ~RoOpen(r)') => min_epoch'[r] = 0
          /\ \A r \in RwReaders :
                /\ RwReadPtrBegins(r) => rw_min_epoch[r] = 0
                /\ (RwOpen(r) /\ ~RwOpen(r)') => rw_min_epoch'[r] = 0]_vars

\* on both objects a read_ptr is open after a publish; the one on the reclaim_object
\* was opened on the second value and has stayed open across the next publish
C19_Witness ==
    /\ \E r \in RoReaders : RoOpen(r) /\ min_epoch[r] # 0 /\ current_epoch >= 2
                            /\ ro_rd[r].value_read = 2 /\ value = 3
    /\ \E r \in RwReaders : RwOpen(r) /\ rw_min_epoch[r] # 0 /\ rw_current_epoch >= 2

\* the step of a read_ptr's constructor that stores the loaded epoch
RoReadPtrStores(r) == ro_rd[r].pc = "store" /\ ro_rd'[r].pc # "store"
RwReadPtrStores(r) == rw_rd[r].pc = "store" /\ rw_rd'[r].pc # "store"

(***************************************************************************)
(* C20 both objects: the constructor of a read_ptr stores into min_epoch   *)
(* the current_epoch it loaded, and from that store until the destructor   *)
(* no step changes min_epoch, so an open read_ptr's reader has min_epoch   *)
(* equal to the loaded epoch.                                              *)
(***************************************************************************)
C20_MinEpochIsLoadedEpoch ==
    /\ [][\A r \in RoReaders :
            /\ RoReadPtrStores(r) => min_epoch'[r] = ro_rd[r].epoch
            /\ (RoInReadPtr(r) /\ RoInReadPtr(r)') => min_epoch'[r] = min_epoch[r]]_vars
    /\ [][\A r \in RwReaders :
            /\ RwReadPtrStores(r) => rw_min_epoch'[r] = rw_rd[r].epoch
            /\ (RwInReadPtr(r) /\ RwInReadPtr(r)') => rw_min_epoch'[r] = rw_min_epoch[r]]_vars
    /\ [](\A r \in RwReaders : RwOpen(r) => rw_min_epoch[r] = rw_rd[r].epoch)

\* the step by which has_readers_using_epoch passes over a reader (any_of goes on)
ReclaimPasses == ro_gc.pc = "scan" /\ ro_gc'.pc = "scan" /\ ro_gc'.j = ro_gc.j + 1
\* the step by which reclaim() resets (frees) zombie k
ReclaimFrees == ro_gc.pc = "reset" /\ ro_gc'.pc = "loop"
\* the reader examined by a step of has_readers_using_epoch
ReclaimExamined == readers[ro_gc.j]

(***************************************************************************)
(* C21 reclaim_object, as stated: when reclaim() has examined the last     *)
(* registered reader and goes on to free the zombie, that reader's         *)
(* min_epoch is 0 or below the zombie's retirement epoch (a value whose    *)
(* retirement epoch is <= a reader's non-zero min_epoch is not freed).     *)
(***************************************************************************)
C21_Original ==
    [][(ReclaimPasses /\ ro_gc.j = Len(readers)) =>
            LET e == min_epoch[ReclaimExamined] IN
            ~(e # 0 /\ zombies[ro_gc.k].epoch_when_retired <= e)]_vars

(***************************************************************************)
(* C21 reclaim_object, amended: reclaim() frees a zombie only after having *)
(* examined every registered reader, and each had, when examined, a        *)
(* min_epoch of 0 or above the zombie's retirement epoch (a value whose    *)
(* retirement epoch is >= a reader's non-zero min_epoch is not freed).     *)
(***************************************************************************)
C21_FreesOnlyEpochsNotInUse ==
    [][/\ ReclaimPasses =>
            LET e == min_epoch[ReclaimExamined] IN
            e = 0 \/ e > zombies[ro_gc.k].epoch_when_retired
       /\ (ro_gc.pc = "scan" /\ ro_gc'.pc = "reset") => ro_gc.j = Len(readers) + 1
       /\ ReclaimFrees => zombies[ro_gc.k].value \notin alive'
       /\ (alive' # alive /\ ~(alive \subseteq alive')) => ReclaimFrees]_vars

\* reclaim() has just freed a zombie although a registered reader with an open
\* read_ptr has a min_epoch above that zombie's retirement epoch
C21_Witness ==
    /\ ro_gc.pc = "loop"
    /\ ro_gc.k >= 2
    /\ zombies[ro_gc.k - 1].value = nullptr
    /\ \E r \in RoRegistered :
          /\ RoOpen(r)
          /\ min_epoch[r] > zombies[ro_gc.k - 1].epoch_when_retired

\* the zombie list is in strictly increasing order of retirement epoch
RoZombiesAscend ==
    \A i, j \in 1..Len(zombies) :
        i < j => zombies[i].epoch_when_retired < zombies[j].epoch_when_retired

(***************************************************************************)
(* C22 reclaim_object, concurrent writers: current_epoch is 1 at first; a  *)
(* step either leaves it alone or is a retirement that adds exactly one    *)
(* and appends a zombie carrying the epoch's previous value; every zombie  *)
(* on the list has an epoch below current_epoch, and the list is in        *)
(* strictly increasing order of retirement epoch (so the epochs are        *)
(* distinct), also after reclaim() has erased entries.                     *)
(***************************************************************************)
C22_EpochsCountRetirements ==
    /\ current_epoch = 1
    /\ [][\/ current_epoch' = current_epoch /\ ~(\E w \in RoWriters : RoRetires(w))
          \/ /\ current_epoch' = current_epoch + 1
             /\ \E w \in RoWriters :
                   /\ RoRetires(w)
                   /\ Len(zombies') = Len(zombies) + 1
                   /\ zombies'[Len(zombies')] =
                        [epoch_when_retired |-> current_epoch, value |-> ro_wr[w].old_value]]_vars
    /\ [](/\ current_epoch >= 1
          /\ \A k \in 1..Len(zombies) : zombies[k].epoch_when_retired < current_epoch
          /\ RoZombiesAscend)

\* two writers have retired in the order opposite to that of their exchanges: the
\* value displaced second is the older zombie
C22_Witness ==
    /\ Len(zombies) = 2
    /\ current_epoch = 3
    /\ zombies[1].value = 2 /\ zombies[1].epoch_when_retired = 1
    /\ zombies[2].value = 1 /\ zombies[2].epoch_when_retired = 2

\* the readers that have been constructed and not destroyed
RoLive == {r \in RoReaders : ro_rd[r].pc # "none"}
RwLive == {r \in RwReaders : rw_rd[r].pc # "none"}
RwRegistered == {rw_readers[j] : j \in 1..Len(rw_readers)}

(***************************************************************************)
(* C23 both objects, readers created and destroyed by concurrent threads:  *)
(* the reader set holds exactly the live readers, each once; constructing  *)
(* a reader appends it and nothing else, destroying one removes it and     *)
(* nothing else; a read_ptr opened through a live reader (get_value) reads *)
(* the current value.                                                      *)
(***************************************************************************)
C23_ReaderSetIsLiveReaders ==
    /\ [](/\ RoRegistered = RoLive /\ Len(readers) = Cardinality(RoLive)
          /\ RwRegistered = RwLive /\ Len(rw_readers) = Cardinality(RwLive))
    /\ [][/\ \A r \in RoReaders :
                /\ (r \notin RoLive /\ r \in RoLive') => readers' = Append(readers, r)
                /\ (r \in RoLive /\ r \notin RoLive') =>
                        /\ Len(readers') = Len(readers) - 1
                        /\ {readers'[j] : j \in 1..Len(readers')} = RoRegistered \ {r}
                /\ RoReadPtrOpens(r) => r \in RoRegistered /\ deref(r)' = {heap[value]}
          /\ \A r \in RwReaders :
                /\ (r \notin RwLive /\ r \in RwLive') => rw_readers' = Append(rw_readers, r)
                /\ (r \in RwLive /\ r \notin RwLive') =>
                        /\ Len(rw_readers') = Len(rw_readers) - 1
                        /\ {rw_readers'[j] : j \in 1..Len(rw_readers')} = RwRegistered \ {r}
                /\ (rw_rd[r].pc = "load" /\ RwOpen(r)') =>
                        /\ r \in RwRegistered
                        /\ rw_deref(r)' = rw_slots[rw_current_read_slot]]_vars

\* on both objects the first reader was destroyed and created again while the second
\* lived, so it is registered behind it, and read_ptrs are open through them
C23_Witness ==
    /\ readers = <<2, 1>> /\ RoOpen(1) /\ RoOpen(2)
    /\ rw_readers = <<2, 1>> /\ RwOpen(1) /\ RwOpen(2)

\* thread t is inside lock()
MutexInLock(t) == m_pc[t] \in {"stage1", "stage2", "stage3", "yield"}
\* a step in which thread t calls try_lock(), directly or from a stage of lock()
MutexTries(t) == m_tries'[t] # m_tries[t]
\* a step in which thread t's try_lock() returned false
MutexTryFailed(t) == MutexTries(t) /\ ~m_ret'[t]
\* a step in which thread t's try_lock() returned true
MutexTrySucceeded(t) == MutexTries(t) /\ m_ret'[t]
\* a step in which thread t unlocks
MutexUnlocked(t) == m_pc[t] = "held" /\ m_pc'[t] = "idle"

(***************************************************************************)
(* C24 spin_mutex: a try_lock() returns true exactly when it finds the     *)
(* flag clear, and the flag is set after it either way; one that returns   *)
(* false leaves the flag and the holder as they were; the flag is set      *)
(* exactly while some thread holds the lock, unlock() clears it, and a     *)
(* try_lock() made while it is clear can only return true.                 *)
(***************************************************************************)
C24_TryLockIsTestAndSet ==
    /\ [][\A t \in Threads :
            /\ MutexTries(t) => flag' /\ (m_ret'[t] <=> ~flag)
            /\ MutexTrySucceeded(t) => ~flag /\ flag' /\ Holders' = {t}
            /\ MutexTryFailed(t) => flag /\ flag' /\ Holders' = Holders /\ m_pc' = m_pc
            /\ MutexUnlocked(t) => flag /\ ~flag' /\ Holders' = {}]_vars
    /\ [](flag <=> Holders # {})
    /\ [](\A t \in Threads :
            m_pc[t] = "idle" =>
                /\ ENABLED TryLock(t)
                /\ ~flag => ~ENABLED (TryLock(t) /\ m_pc'[t] = "idle")
                /\ flag => ~ENABLED (TryLock(t) /\ m_pc'[t] = "held"))

\* a direct try_lock() of one thread has returned false, a second thread holds the
\* lock by its second try_lock() (so an unlock came before it), and the first
\* try_lock() of a third, inside lock(), has failed
C24_Witness ==
    \E t, u, v \in Threads :
        /\ m_pc[t] = "idle" /\ ~m_ret[t] /\ m_tries[t] = 1
        /\ m_pc[u] = "held" /\ m_ret[u] /\ m_tries[u] = 0
        /\ m_pc[v] = "stage1" /\ m_i[v] = 1 /\ ~m_ret[v]
        /\ flag

\* every thread other than thread 1 has locked the mutex once and unlocked it again
MutexReleasedByHolders == \A t \in Threads \ {1} : m_pc[t] = "idle" /\ m_ret[t]

(***************************************************************************)
(* C25 spin_mutex, holders and one thread calling lock(): lock() returns   *)
(* only by a step that finds the flag clear, so never while another thread *)
(* holds the mutex; and once the holders have unlocked and no other thread *)
(* contends, the thread inside lock() eventually holds the mutex.          *)
(***************************************************************************)
C25_LockWaitsThenAcquires ==
    /\ [][(MutexInLock(1) /\ m_pc'[1] # m_pc[1] /\ ~MutexInLock(1)') =>
            /\ m_pc'[1] = "held"
            /\ ~flag /\ Holders = {}]_vars
    /\ [](m_pc[1] = "held" => Holders = {1})
    /\ ((MutexInLock(1) /\ MutexReleasedByHolders) ~> m_pc[1] = "held")

\* thread 1 has gone through all three stages and its yield while other threads held
\* the mutex, and is back in stage 3 now that the last of them has unlocked
C25_Witness ==
    /\ MutexReleasedByHolders
    /\ ~flag
    /\ m_pc[1] = "stage3" /\ m_i[1] = 0 /\ ~m_ret[1]

\* thread t is inside lock() and has not evaluated try_lock() yet: it is in stage 1,
\* whose retries are immediate (no pause, no yield), with i = 0
MutexFirstEvaluation(t) == m_pc[t] = "stage1" /\ m_i[t] = 0
\* the step by which thread t enters lock()
MutexLockCalled(t) == m_pc[t] = "idle" /\ MutexInLock(t)'
\* a step of thread t inside lock() that evaluates try_lock()
MutexEvaluates(t) == MutexInLock(t) /\ MutexTries(t)

\* the thread is inside progressive_backoff_wait
PbInWait == pb_w.pc \in {"stage1", "stage2", "stage3", "yield"}
\* it is inside and has not evaluated the predicate yet: it is in stage (a), whose
\* rechecks are immediate (no pause, no yield), before the first of them
PbFirstEvaluation == pb_w.pc = "stage1" /\ pb_w.i = 0
\* the step by which the thread enters progressive_backoff_wait
PbCalled == ~PbInWait /\ PbInWait'
\* a step of the thread that evaluates the predicate: the wait returns or counts a
\* recheck of the burst
PbEvaluates ==
    PbInWait /\ (pb_w'.pc = "done" \/ (pb_w'.pc = pb_w.pc /\ pb_w'.i = pb_w.i + 1))
\* the flag is true and will not be written again
PbStaysTrue == pred(pb_flag) /\ pb_writes = MaxFlagWrites

(***************************************************************************)
(* C26 the backoff wait, both as progressive_backoff_wait(pred) and as     *)
(* lock(), the wait over try_lock(): the first evaluation of the predicate *)
(* is made in the first stage before any pause or yield, and if it is true *)
(* the wait returns by that step; the wait returns only by an evaluation   *)
(* that is true, so never while every evaluation has been false, and every *)
(* evaluation made while the predicate is true (for lock(): the flag is    *)
(* clear) returns; once the predicate is true for good (the flag of the    *)
(* predicate is true and not written again; the mutex has been released    *)
(* and no other thread contends) the wait eventually returns.              *)
(***************************************************************************)
C26_BackoffWaitReturnsOnTrue ==
    /\ [][/\ MutexLockCalled(1) => MutexFirstEvaluation(1)'
          /\ (MutexFirstEvaluation(1) /\ ~flag /\ <<m_pc[1], m_i[1]>>' # <<m_pc[1], m_i[1]>>)
                => m_pc'[1] = "held" /\ m_ret'[1]
          /\ (MutexInLock(1) /\ ~MutexInLock(1)') => MutexEvaluates(1) /\ m_ret'[1]
          /\ MutexEvaluates(1) => (m_ret'[1] <=> ~flag)
          /\ (MutexInLock(1) /\ MutexTryFailed(1)) => MutexInLock(1)']_vars
    /\ ((MutexInLock(1) /\ MutexReleasedByHolders) ~> ~MutexInLock(1))
    /\ [][/\ PbCalled => PbFirstEvaluation'
          /\ (PbFirstEvaluation /\ pred(pb_flag) /\ pb_w' # pb_w)
                => pb_w'.pc = "done" /\ ~pb_w'.paused
          /\ (PbInWait /\ ~PbInWait') => PbEvaluates /\ pred(pb_flag) /\ pb_w'.pc = "done"
          /\ PbEvaluates => (pb_w'.pc = "done" <=> pred(pb_flag))]_vars
    /\ ((PbInWait /\ PbStaysTrue) ~> pb_w.pc = "done")

\* lock() was called while no other thread had ever locked the mutex, and has
\* returned; before that, in a test case that has ended, progressive_backoff_wait
\* found its predicate false, paused, and returned
C26_Witness ==
    /\ m_pc[1] = "held" /\ m_ret[1]
    /\ \A t \in Threads \ {1} : m_pc[t] = "idle" /\ ~m_ret[t]
    /\ pb_w.pc = "ended" /\ pb_w.paused

\* the writer is between store's first and final counter write
SqMidStore == sq_w.pc \in {"data", "seq2"}
\* the step by which a store begins and the step by which it completes
SqStoreBegins == sq_w.pc = "idle" /\ sq_w'.pc = "seq1"
SqStoreCompletes == sq_w.pc = "seq2" /\ sq_w'.pc = "idle"

(***************************************************************************)
(* C27 seqlock_object, one writer: seq is odd exactly from store's first   *)
(* counter write to its final one and even otherwise; the data words are   *)
(* written only inside that interval; a store reads the counter when it    *)
(* begins and completes by setting it to that value plus 2, nothing else   *)
(* changing it in between but the store's own first write.                 *)
(***************************************************************************)
C27_SeqOddExactlyMidStore ==
    /\ [](seq_is_odd(seq) <=> SqMidStore)
    /\ [](sq_w.pc # "idle" => seq = sq_w.old_seq + (IF SqMidStore THEN 1 ELSE 0))
    /\ [][/\ data' # data => SqMidStore /\ SqMidStore' /\ seq' = seq
          /\ SqStoreBegins => sq_w'.old_seq = seq /\ seq' = seq
          /\ SqStoreCompletes => seq' = sq_w.old_seq + 2 /\ seq' = seq + 1
          /\ seq' >= seq]_vars

\* the second store is half-way through its data words, the counter being odd and
\* already raised by the first store
C27_Witness ==
    /\ sq_w.stores = 2
    /\ sq_w.pc = "data" /\ sq_w.i = 1
    /\ seq_is_odd(seq) /\ seq >= 3
    /\ data[1] = sq_w.buffer[1] /\ data[2] # sq_w.buffer[2]

\* how far a call of try_load has come: the first sequence read, the words copied,
\* the second sequence read
SqLoadRank(r) ==
    CASE sq_r[r].pc = "seq1" -> 0
      [] sq_r[r].pc = "data" -> 1 + Len(sq_r[r].buffer)
      [] sq_r[r].pc = "seq2" -> 2 + buffer_size
      [] OTHER -> 3 + buffer_size
\* reader r is inside a call of try_load (not of load)
SqInTryLoad(r) == sq_r[r].kind = "try_load" /\ sq_r[r].pc # "idle"
\* the step by which reader r's try_load returns
SqTryLoadReturns(r) == SqInTryLoad(r) /\ sq_r'[r].pc = "idle"

(***************************************************************************)
(* C28 seqlock_object::try_load returns at its first sequence read exactly *)
(* when that read is odd, and then false; otherwise it copies all words    *)
(* and returns at its second sequence read, true exactly when the two      *)
(* reads are equal; a false return leaves the caller's t as it was, a true *)
(* one sets it from the copied words; every step of the call is enabled    *)
(* whatever the writer does and moves the call forward, so it is one pass. *)
(***************************************************************************)
C28_TryLoadFailsOnOddOrChangedSeq ==
    /\ [][\A r \in SeqReaders :
            /\ (SqInTryLoad(r) /\ sq_r[r].pc = "seq1" /\ sq_r'[r] # sq_r[r]) =>
                  /\ sq_r'[r].seq1 = seq
                  /\ IF seq % 2 # 0
                     THEN SqTryLoadReturns(r) /\ sq_r'[r].ret = "false"
                     ELSE sq_r'[r].pc = "data" /\ sq_r'[r].ret = "none"
            /\ (SqInTryLoad(r) /\ sq_r[r].pc = "seq2" /\ sq_r'[r] # sq_r[r]) =>
                  /\ SqTryLoadReturns(r)
                  /\ Len(sq_r[r].buffer) = buffer_size
                  /\ sq_r'[r].ret = (IF sq_r[r].seq1 = seq THEN "true" ELSE "false")
            /\ SqTryLoadReturns(r) =>
                  /\ sq_r[r].pc \in {"seq1", "seq2"}
                  /\ sq_r'[r].ret = "false" => sq_r'[r].t = sq_r[r].t
                  /\ sq_r'[r].ret = "true" => sq_r'[r].t = from_buffer(sq_r[r].buffer)
            /\ (SqInTryLoad(r) /\ sq_r'[r] # sq_r[r]) => SqLoadRank(r)' > SqLoadRank(r)]_vars
    /\ [](\A r \in SeqReaders :
            /\ sq_r[r].pc = "seq1" => ENABLED LoadSeq1(r)
            /\ sq_r[r].pc = "data" => ENABLED LoadData(r)
            /\ sq_r[r].pc = "seq2" => ENABLED LoadSeq2(r))

\* a try_load that succeeded earlier left its value in t; a later one read an even
\* sequence number, found it changed at its second read and returned false, t
\* still holding the earlier value
C28_Witness ==
    \E r \in SeqReaders :
        /\ sq_r[r].pc = "idle" /\ sq_r[r].kind = "try_load"
        /\ sq_r[r].ret = "false"
        /\ sq_r[r].seq1 % 2 = 0 /\ sq_r[r].seq1 # seq
        /\ sq_r[r].t \in Values

\* no call of store() is running
SqWriterIdle == sq_w.pc = "idle"
\* a value was passed to the constructor (seq = 2 after it) or to a store()
SqValueGiven == sq_w.stores > 0 \/ seq # 0
\* the value passed to the last store() that began, or before any store() the one
\* the object was constructed with
SqLastStored ==
    IF sq_w.stores = 0
    THEN CHOOSE t \in sq_stored : TRUE
    ELSE CHOOSE t \in sq_stored : to_buffer(t) = sq_w.buffer
\* reader r is in a call of try_load (directly or from load()) that no store() has
\* touched so far: the sequence number it read is still the object's, and so are
\* the words it copied
SqUntouched(r) ==
    /\ sq_r[r].pc # "idle"
    /\ SqWriterIdle
    /\ \/ sq_r[r].pc = "seq1"
       \/ /\ sq_r[r].seq1 = seq
          /\ \A i \in 1..Len(sq_r[r].buffer) : sq_r[r].buffer[i] = data[i]

(***************************************************************************)
(* C29 While no store() is running the words of a seqlock_object are those *)
(* of the value passed to the last store(), or to seqlock_object(T), and   *)
(* copying them back gives that value, also with sizeof(T) not a multiple  *)
(* of the word size; a try_load called while no store() runs stays         *)
(* untouched as long as none begins, and then returns true with exactly    *)
(* that value.                                                             *)
(***************************************************************************)
C29_TryLoadYieldsLastStoredValue ==
    /\ []((SqWriterIdle /\ SqValueGiven) =>
            /\ SqLastStored \in Values
            /\ data = to_buffer(SqLastStored)
            /\ from_buffer(data) = SqLastStored)
    /\ [][\A r \in SeqReaders :
            /\ (sq_r[r].pc = "idle" /\ sq_r'[r].pc # "idle" /\ SqWriterIdle) => SqUntouched(r)'
            /\ (SqUntouched(r) /\ SqWriterIdle') =>
                  \/ SqUntouched(r)' /\ sq_r'[r].ret = "none"
                  \/ /\ sq_r[r].pc = "seq2" /\ sq_r'[r].pc = "idle"
                     /\ sq_r'[r].ret = "true"
                     /\ SqValueGiven => sq_r'[r].t = SqLastStored]_vars

\* store() has completed twice, the object had been given a different value before
\* the last one, and a try_load that ran after the last store() returned true with
\* the last value
C29_Witness ==
    \E r \in SeqReaders :
        /\ SizeofT % WordBytes # 0
        /\ SqWriterIdle /\ sq_w.stores = 2 /\ seq >= 4
        /\ sq_r[r].pc = "idle" /\ sq_r[r].kind = "try_load" /\ sq_r[r].ret = "true"
        /\ sq_r[r].seq1 = seq
        /\ sq_r[r].t = SqLastStored /\ sq_r[r].t # caller_t
        /\ \E t \in sq_stored : t \in Values /\ t # SqLastStored

\* the object was made by seqlock_object() and no store() has been called on it
SqDefaultConstructed == seq = 0 /\ sq_w.stores = 0

(***************************************************************************)
(* C30 Before any store(), a load() or try_load() on a seqlock_object made *)
(* by the default constructor yields T{}: every field has the value of its *)
(* default member initializer (for the test's coeffs: 0, false, 42).       *)
(***************************************************************************)
C30_DefaultConstructedHoldsDefaultT ==
    \A r \in SeqReaders :
        (SqDefaultConstructed /\ sq_r[r].ret = "true") => sq_r[r].t = default_T

\* reader r is inside a call of load()
SqInLoad(r) == sq_r[r].kind = "load" /\ sq_r[r].pc # "idle"

(***************************************************************************)
(* C31 seqlock_object::load never returns false; it returns only at the    *)
(* second sequence read of a try_load whose two reads are equal and even,  *)
(* with the value made from the words that try_load copied; and when the   *)
(* threads are scheduled fairly and the writer calls store() finitely      *)
(* often, every load() returns.                                            *)
(***************************************************************************)
C31_LoadReturnsSuccessfulTryLoad ==
    /\ [](\A r \in SeqReaders : sq_r[r].kind = "load" => sq_r[r].ret # "false")
    /\ [][\A r \in SeqReaders :
            (SqInLoad(r) /\ sq_r'[r].pc = "idle") =>
                /\ sq_r[r].pc = "seq2"
                /\ Len(sq_r[r].buffer) = buffer_size
                /\ sq_r[r].seq1 = seq /\ sq_r[r].seq1 % 2 = 0
                /\ sq_r'[r].ret = "true"
                /\ sq_r'[r].t = from_buffer(sq_r[r].buffer)
                /\ sq_r'[r].t \in sq_stored]_vars
    /\ \A r \in SeqReaders : SqInLoad(r) ~> (sq_r[r].pc = "idle" /\ sq_r[r].ret = "true")

\* a load() that ran while the writer was storing for the last time has returned,
\* after that store(), with its value
C31_Witness ==
    \E r \in SeqReaders :
        /\ sq_r[r].kind = "load" /\ sq_r[r].pc = "idle" /\ sq_r[r].ret = "true"
        /\ sq_w.stores = MaxStores /\ sq_w.pc = "idle"
        /\ sq_r[r].seq1 = seq
        /\ sq_r[r].t = from_buffer(sq_w.buffer) /\ sq_r[r].t \in Values

\* a step that is a call by thread t of the member function named (a call that
\* changes nothing, like exchanging nullptr for nullptr, is no step)
AuCallStep(t, call) == au_t'[t] # au_t[t] /\ au_t'[t].call = call

(***************************************************************************)
(* C32 atomic_unique_ptr::exchange(desired) is one step after which the    *)
(* stored address is the one desired held, the returned unique_ptr holds   *)
(* the address stored just before, and desired is empty; nothing else of   *)
(* the caller or of any other thread changes.                              *)
(***************************************************************************)
C32_ExchangeInstallsAndReturnsOld ==
    [][\A t \in AuThreads :
          AuCallStep(t, "exchange") =>
              /\ au_ptr' = au_t[t].desired
              /\ au_t'[t].result = au_ptr
              /\ au_t'[t].desired = nullptr
              /\ au_t'[t].expected = au_t[t].expected
              /\ \A u \in AuThreads \ {t} : au_t'[u] = au_t[u]
              /\ au_t'[t].ret = "none"
              /\ au_live' = au_live /\ au_made' = au_made /\ au_deleted' = au_deleted
              /\ au_alive' = au_alive]_vars

\* a thread has exchanged the object it made for the one the container was
\* constructed with
C32_Witness ==
    \E t \in AuThreads :
        /\ au_live /\ au_ptr = 2
        /\ au_t[t].pc = "idle" /\ au_t[t].call = "exchange"
        /\ au_t[t].result = 1 /\ au_t[t].desired = nullptr
        /\ au_deleted[1] = 0 /\ au_deleted[2] = 0

\* the unique_ptrs (and the container) that own the object at address a
AuOwners(a) ==
    (IF au_live /\ au_ptr = a THEN {<<"container", 0>>} ELSE {})
    \cup {<<"desired", t>> : t \in {u \in AuThreads : au_t[u].desired = a}}
    \cup {<<"result", t>> : t \in {u \in AuThreads : au_t[u].result = a}}
\* the container is gone and no thread holds an object any more
AuAllGone ==
    /\ ~au_live
    /\ \A t \in AuThreads : au_t[t].desired = nullptr /\ au_t[t].result = nullptr

\* the number of deletions made so far, at the addresses 1..n
RECURSIVE AuDeletions(_)
AuDeletions(n) == IF n = 0 THEN 0 ELSE au_deleted[n] + AuDeletions(n - 1)

(***************************************************************************)
(* C33 Under every interleaving of the threads' calls, an object that      *)
(* exists is owned by exactly one party (the container or one unique_ptr   *)
(* of one thread), and storage that holds no object is owned by none; so   *)
(* no two calls return the same object and no returned object is already   *)
(* deleted; every delete is of an object that exists (none is deleted      *)
(* twice); the destructor deletes exactly the object stored at that        *)
(* moment, and once the container and all unique_ptrs are gone no object   *)
(* is left and as many deletions were made as objects.                     *)
(***************************************************************************)
C33_EveryObjectHasOneOwner ==
    /\ [](\A a \in 1..AuMaxObjs :
            IF a \in au_alive
            THEN Cardinality(AuOwners(a)) = 1
            ELSE AuOwners(a) = {})
    /\ [](\A t \in AuThreads : au_t[t].result # nullptr =>
            /\ au_t[t].result \in au_alive
            /\ \A u \in AuThreads \ {t} : au_t[u].result # au_t[t].result)
    /\ [][\A a \in 1..AuMaxObjs :
            au_deleted'[a] # au_deleted[a] =>
                /\ au_deleted'[a] = au_deleted[a] + 1
                /\ a \in au_alive /\ a \notin au_alive']_vars
    /\ [][(au_live /\ ~au_live') =>
            \A a \in 1..AuMaxObjs :
                au_deleted'[a] = au_deleted[a] + (IF a = au_ptr THEN 1 ELSE 0)]_vars
    /\ [](AuAllGone => au_alive = {} /\ AuDeletions(AuMaxObjs) = au_made)

\* every object that could be created was installed, the second at the address
\* of the first, which a thread had got back and deleted; the one stored last was
\* deleted by the destructor, the others by the threads that got them back
C33_Witness ==
    /\ AuAllGone
    /\ au_made = AuMaxObjs
    /\ au_installed = {1, 2}
    /\ au_deleted[1] = 2
    /\ AuDeletions(AuMaxObjs) = AuMaxObjs

\* what a successful compare-exchange by thread t does: desired's address is
\* installed, desired is empty, expected is as it was, the result is present and
\* owns the address stored before
AuInstalled(t) ==
    /\ au_ptr' = au_t[t].desired
    /\ au_t'[t].desired = nullptr
    /\ au_t'[t].expected = au_t[t].expected
    /\ au_t'[t].ret = "present"
    /\ au_t'[t].result = au_ptr
    /\ au_t'[t].pc = "idle"

(***************************************************************************)
(* C34 A compare_exchange_strong called with expected equal to the stored  *)
(* address installs desired's address, empties desired, leaves expected    *)
(* unchanged and returns a present result owning the address stored        *)
(* before; a compare_exchange_weak that returns a present result has done  *)
(* the same, and a loop retrying compare_exchange_weak eventually gets a   *)
(* present result.                                                         *)
(***************************************************************************)
C34_CompareExchangeSuccess ==
    /\ [][\A t \in AuThreads :
            /\ (AuCallStep(t, "strong") /\ au_t[t].expected = au_ptr) => AuInstalled(t)
            /\ (AuCallStep(t, "weak") /\ au_t'[t].ret = "present") =>
                  au_t[t].expected = au_ptr /\ AuInstalled(t)]_vars
    /\ \A t \in AuThreads :
          au_t[t].pc = "loop" ~> (au_t[t].pc = "idle" /\ au_t[t].call = "weak"
                                    /\ au_t[t].ret = "present")

\* a compare_exchange_weak loop ended: the thread's object is installed, the thread
\* got back the object the container was constructed with, which its expected
\* still names
C34_Witness ==
    \E t \in AuThreads :
        /\ au_t[t].pc = "idle" /\ au_t[t].call = "weak" /\ au_t[t].ret = "present"
        /\ au_t[t].result = 1 /\ au_t[t].expected = 1
        /\ au_t[t].desired = nullptr
        /\ au_ptr = 2 /\ au_deleted[1] = 0

\* what a failed compare-exchange by thread t does: the result is absent, expected
\* names the stored address, which is unchanged, and desired still owns its object
AuRefused(t) ==
    /\ au_t'[t].ret = "absent"
    /\ au_t'[t].result = nullptr
    /\ au_t'[t].expected = au_ptr
    /\ au_ptr' = au_ptr
    /\ au_t'[t].desired = au_t[t].desired
    /\ au_installed' = au_installed /\ au_deleted' = au_deleted /\ au_alive' = au_alive

(***************************************************************************)
(* C35 A compare_exchange_strong or compare_exchange_weak called with      *)
(* expected different from the stored address returns an absent result,    *)
(* sets expected to the stored address, leaves the stored address as it    *)
(* was and desired owning its object; every absent result, the spurious    *)
(* one of the weak form included, comes with the stored address and        *)
(* desired unchanged; the strong form never fails when the addresses are   *)
(* equal.                                                                  *)
(***************************************************************************)
C35_CompareExchangeFailure ==
    [][\A t \in AuThreads : \A call \in {"strong", "weak"} :
          /\ (AuCallStep(t, call) /\ au_t[t].expected # au_ptr) => AuRefused(t)
          /\ (AuCallStep(t, call) /\ au_t'[t].ret = "absent") => AuRefused(t)
          /\ (AuCallStep(t, "strong") /\ au_t'[t].ret = "absent") =>
                au_t[t].expected # au_ptr]_vars

\* a thread's compare_exchange_strong found another thread's object stored where
\* it expected the first one: its result is absent, its expected names the stored
\* object, and it still owns the object it wanted to install
C35_Witness ==
    \E t \in AuThreads :
        /\ au_t[t].call = "strong" /\ au_t[t].ret = "absent"
        /\ au_t[t].result = nullptr
        /\ au_ptr = 2 /\ au_t[t].expected = 2
        /\ au_t[t].desired = 3 /\ au_deleted[3] = 0

\* reader r's open read_ptr refers to the value that is zombie k
RoRefersTo(r, k) == RoOpen(r) /\ zombies[k].value = ro_rd[r].value_read

(***************************************************************************)
(* C36 reclaim_object: a read_ptr's constructor has published a non-zero   *)
(* min_epoch before it loads the pointer; whenever the value an open       *)
(* read_ptr refers to is on the zombie list, its retirement epoch is >=    *)
(* the min_epoch of that read_ptr's reader, which is registered; and every *)
(* check reclaim() makes of such a zombie ends at a reader using its epoch *)
(* and leaves the zombie and its value alone.                              *)
(***************************************************************************)
C36_RetirementEpochNotBelowMinEpoch ==
    /\ [](\A r \in RoReaders : ro_rd[r].pc \in {"load", "open"} => min_epoch[r] # 0)
    /\ [](\A r \in RoReaders : \A k \in 1..Len(zombies) :
            RoRefersTo(r, k) =>
                /\ min_epoch[r] # 0
                /\ zombies[k].epoch_when_retired >= min_epoch[r]
                /\ \E j \in 1..Len(readers) : readers[j] = r)
    /\ [][(ReclaimDecides /\ \E r \in RoReaders : RoRefersTo(r, ro_gc.k)) =>
            /\ ro_gc.j <= Len(readers)
            /\ min_epoch[ReclaimExamined] # 0
            /\ min_epoch[ReclaimExamined] <= zombies[ro_gc.k].epoch_when_retired
            /\ zombies' = zombies /\ alive' = alive]_vars

\* without assertions compiled in: a read_ptr opened at epoch 2 refers to a value
\* that was then retired at epoch 2, and reclaim() is checking that zombie
C36_Witness ==
    \E r \in RoReaders : \E k \in 1..Len(zombies) :
        /\ ~assertions
        /\ RoRefersTo(r, k)
        /\ min_epoch[r] = 2 /\ zombies[k].epoch_when_retired = 2
        /\ ro_gc.pc = "scan" /\ ro_gc.k = k

\* writer w is constructing a write_ptr: it has loaded the current pointer and has
\* not finished copying the T there
RoWritePtrCopies(w) == ro_wr[w].pc = "copy"

(***************************************************************************)
(* C37 reclaim_object with concurrent writers and reclaim(), as claimed:   *)
(* from the load of the current pointer in write_ptr's constructor to the  *)
(* end of the copy, the value at the loaded address has not been           *)
(* destroyed.                                                              *)
(***************************************************************************)
C37_WritePtrCopiesLiveValue ==
    \A w \in RoWriters : RoWritePtrCopies(w) => ro_wr[w].loaded \in alive

\* a step that acquires zombies_mtx / readers_mtx and keeps it beyond the step
RoZombiesMtxAcquired == zombies_mtx = "free" /\ zombies_mtx' # "free"
RoReadersMtxAcquired == readers_mtx = "free" /\ readers_mtx' # "free"

(***************************************************************************)
(* C38 reclaim_object: readers_mtx is acquired, beyond a single push_back  *)
(* or erase, only by the thread that already holds zombies_mtx (reclaim(), *)
(* for has_readers_using_epoch); zombies_mtx is acquired only while        *)
(* readers_mtx is free; and whoever holds a mutex can take its next step,  *)
(* so get_reader, reader destruction, update, write_ptr destruction and    *)
(* reclaim never deadlock on the two mutexes.                              *)
(***************************************************************************)
C38_LockOrderZombiesThenReaders ==
    /\ [](readers_mtx # "free" => zombies_mtx = readers_mtx)
    /\ [][/\ RoZombiesMtxAcquired => readers_mtx = "free" /\ readers_mtx' = "free"
          /\ RoReadersMtxAcquired => zombies_mtx = readers_mtx' /\ zombies_mtx' = zombies_mtx
          /\ readers' # readers => zombies_mtx' = zombies_mtx /\ readers_mtx = "free"]_vars
    /\ [](zombies_mtx = "writer" => \E w \in RoWriters : ENABLED Retire(w))
    /\ [](zombies_mtx = "reclaim" => ENABLED ReclaimRuns)
    /\ [](readers_mtx = "reclaim" => ENABLED ReclaimScan)

\* reclaim() holds both mutexes and is about to examine the registered reader; a
\* write_ptr's destructor has exchanged its modified copy in and waits for
\* zombies_mtx; the reader's thread, whose next call needs readers_mtx, has to wait
C38_Witness ==
    /\ zombies_mtx = "reclaim" /\ readers_mtx = "reclaim"
    /\ ro_gc.pc = "scan" /\ ro_gc.j = 1 /\ Len(readers) = 1
    /\ ro_wr[1].pc = "lock" /\ ro_wr[1].old_value # nullptr
    /\ heap[value] = modify(heap[ro_wr[1].old_value])
    /\ ro_rd[1].pc = "idle"
    /\ ~ENABLED DestroyReader(1) /\ ~ENABLED RetireLock(1)

\* the thread's writer is inside update(): between make_unique and the return of
\* exchange_and_retire
RoInUpdate(w) == ro_wr[w].pc # "idle"

(***************************************************************************)
(* C39 A thread that holds an open read_ptr of a reclaim_on_write_object   *)
(* and publishes on it (update(), or the destructor of a write_ptr) stays  *)
(* in the publish for ever: the read_ptr cannot be closed before the       *)
(* publish returns, its reader's min_epoch is non-zero and <= the retired  *)
(* epoch, and the publish does not return while that is so.  The same      *)
(* sequence on a reclaim_object returns, the read_ptr still open.          *)
(***************************************************************************)
C39_UpdateUnderOwnReadPtrNeverReturns ==
    /\ [][(RwPublishing(1) /\ RwOpen(1)) => (RwPublishing(1)' /\ RwOpen(1)')]_vars
    /\ []((rw_wr[1].pc \in {"wait", "scan"} /\ RwOpen(1)) =>
            /\ rw_min_epoch[1] # 0
            /\ rw_min_epoch[1] <= rw_wr[1].retired_epoch)
    /\ (RoInUpdate(1) /\ RoOpen(1)) ~> (~RoInUpdate(1) /\ RoOpen(1))

\* the thread of the reclaim_on_write_object opened a read_ptr and called update():
\* the publish finds the thread's own reader using the retired epoch and is about
\* to wait again; the thread of the reclaim_object did the same and its update()
\* has returned
C39_Witness ==
    /\ RwOpen(1)
    /\ rw_wr[1].pc = "wait" /\ rw_readers_mtx = "free"
    /\ rw_rd[1].read_slot # rw_current_read_slot
    /\ RoOpen(1) /\ ~RoInUpdate(1)
    /\ \E k \in 1..Len(zombies) : zombies[k].value = ro_rd[1].value_read

\* ~write_ptr of writer w runs "obj.exchange_and_retire(std::move(new_value))"
\* after another writer has published since the write_ptr's construction
RoWritePtrPublishesLate(w) ==
    /\ ro_wr[w].pc = "write_ptr" /\ ro_wr'[w].pc = "lock"
    /\ value # ro_wr[w].loaded

\* the T a write_ptr holds when it was made from the T c and written through or not
RoCopyOf(c, modified) == IF modified THEN modify(c) ELSE c

(***************************************************************************)
(* C40 A write_ptr of a reclaim_object publishes a (modified) copy of the  *)
(* value that was current when it was constructed.  When another writer    *)
(* has published in between, the write_ptr's destruction makes its copy    *)
(* the current value, the copy holds the construction-time T (written      *)
(* through or not) and nothing of the intervening T, and the intervening   *)
(* value is handed unchanged to the zombie list.                           *)
(***************************************************************************)
C40_WritePtrPublishesCopyOfConstructionValue ==
    [][\A w \in RoWriters :
        /\ RoWritePtrPublishesLate(w) =>
              /\ value' = ro_wr[w].new_value
              /\ heap'[value'] = RoCopyOf(heap[ro_wr[w].loaded], ro_wr[w].modified)
              /\ ro_wr'[w].old_value = value
              /\ heap'[value] = heap[value]
        /\ (ro_wr[w].pc = "retire" /\ ro_wr'[w].pc = "idle") =>
              /\ zombies' = Append(zombies, [epoch_when_retired |-> current_epoch,
                                             value |-> ro_wr[w].old_value])
              /\ heap' = heap]_vars
====
